---- MODULE Spec2Model ----
(***************************************************************************)
(* Copy-trading engine of MasterCoinBot.                                   *)
(*                                                                         *)
(* The engine that telegram_copy_bot.py runs is CopyTrader of              *)
(* copy_trader.py: it loads the active followers once, in start(), and     *)
(* then reacts to every ACCOUNT_UPDATE of the master stream by placing     *)
(* orders for each follower and writing rows of the trades table.          *)
(*                                                                         *)
(* Units.  Python floats are modelled by exact integers:                   *)
(*   quantities      in 1/1000 of the base asset (the precision that       *)
(*                   round(x, 3) keeps),                                   *)
(*   risk_factor     in tenths,                                            *)
(*   entry prices and max_position_size in whole USDT,                     *)
(*   trades.size     in 1/1000 USDT (quantity in 1/1000 times the price),  *)
(*   order prices    in 1/100 USDT (price times (100 +- percent)).         *)
(* round(x, 3) rounds to the nearest 1/1000; on an exact tie the result    *)
(* of the float computation depends on the binary representation of x, so  *)
(* a tie may go either way (tieUp).                                        *)
(***************************************************************************)
EXTENDS Integers, Sequences, FiniteSets, TLC

\* ------------------------------------------------------------------ bounds
MaxEvents == 3          \* master events delivered in one run
MaxBotEvents == 2       \* the same, in runs that also take chat commands
MaxFaults == 1          \* calls of the exchange or of sqlite that fail in one run
MaxCommands == 2        \* chat commands handled in one run

Followers == {"F1", "F2"}
Symbols == {"BTCUSDT"}
PositionSides == {"LONG", "SHORT"}
MasterAmounts == {1, 1000}
EntryPrices == {50000}
ExitPrices == {51000}

\* inputs of the scaling computation checked on its own
ScaleAmounts == {0 - 250, 0 - 37, 0 - 5, 1, 5, 37, 100}
ScaleRiskFactors == {1, 5, 10, 25, 100}
ScaleCaps == {1, 100, 1000}
ScalePrices == {1, 7, 300, 50000, 64321}

Keys == Symbols \X PositionSides

\* ------------------------------------------------------------------ state
VARIABLES
    users,            \* table users of the database, by telegram_id
    running,          \* CopyTrader.running
    follower_clients, \* CopyTrader.follower_clients, in insertion order
    trades,           \* table trades of the database, in id order
    copiedFrom,       \* history: the master position each row was copied from
    orders,           \* calls of place_order made for the last master event
    lastEvent,        \* the last master event handled
    mpos,             \* the master account's positions at the exchange
    nextMasterId,     \* history: number of the next master position
    nEvents,          \* master events that may still be delivered
    nFaults,          \* failures the exchange and sqlite may still produce
    fpos,             \* the followers' positions at the exchange
    hedgeMode,        \* the followers' accounts are in hedge mode
    nCommands,        \* chat commands that may still be handled
    scale,            \* one evaluation of the scaling computation
    master_trades,    \* table master_trades of the database, in id order
    lock,             \* Database.lock: free, or held by a call that waits for it
    returned,         \* what the last call of the Database returned
    morders,          \* the master account's orders at the exchange
    nOrders,          \* messages about master orders that may still arrive
    async_running,    \* running of the asynchronous CopyTrader
    websocket_task,   \* its websocket_task: the number of a task, 0 for None
    tasks,            \* the listen_for_master_trades tasks created so far
    stopped,          \* history: stop() has returned
    user_clients,     \* user_clients of the asynchronous CopyTrader, in insertion order
    initialized,      \* its initialized
    sessions,         \* the HTTP session of the BinanceClient made last for each follower
    keep_running,     \* keep_running of the master's BinanceWebsocketClient
    threads,          \* the threads that run its _run_websocket, in creation order
    conns,            \* the connections its threads opened, in creation order
    ws,               \* its ws: the number of a connection, 0 for None
    loading,          \* the rows _load_active_users has still to initialise
    log               \* history: what became of the messages dispatched

vars == <<users, running, follower_clients, trades, copiedFrom, orders,
          lastEvent, mpos, nextMasterId, nEvents, nFaults, fpos, hedgeMode,
          nCommands, scale, master_trades, lock, returned, morders, nOrders,
          async_running, websocket_task, tasks, stopped, user_clients,
          initialized, sessions, keep_running, threads, conns, ws, loading, log>>

\* the state of the asynchronous engine (src/copy_trader.py of the package)
AsyncVars == <<master_trades, lock, returned, morders, nOrders, async_running,
               websocket_task, tasks, stopped, user_clients, initialized, sessions>>

\* the state of the master's stream client (binance_ws_client.py) and of the
\* loading of the followers
ClientVars == <<keep_running, threads, conns, ws, loading, log>>

NoPrice == 0 - 1
NULL == [isNull |-> TRUE, v |-> 0]
Value(v) == [isNull |-> FALSE, v |-> v]

\* CURRENT_TIMESTAMP and datetime.now(): the time, counted in the messages
\* of the master that the exchange has sent so far (each one lowers nEvents
\* or nOrders)
Now == 0 - (nEvents + nOrders)

Abs(x) == IF x < 0 THEN 0 - x ELSE x
Sign(x) == IF x > 0 THEN 1 ELSE 0 - 1

Max(a, b) == IF a > b THEN a ELSE b

\* ---------------------------------------------------------------- scaling
\* round(num/den, 3) for a quantity of num/den thousandths (den > 0)
Round3(num, den, tieUp) ==
    LET a == Abs(num)
        q == a \div den
        r == a % den
        m == IF 2 * r < den THEN q
             ELSE IF 2 * r > den THEN q + 1
             ELSE IF tieUp THEN q + 1 ELSE q
    IN  IF num < 0 THEN 0 - m ELSE m

\* follower_amount without the limit of max_position_size
FollowerAmount_noCap(master_amount, entry_price, settings, tieUp) ==
    Round3(master_amount * settings.risk_factor, 10, tieUp)

\* follower_amount of _copy_position_open, in thousandths: master_amount is in
\* thousandths and risk_factor in tenths, so master_amount * risk_factor is
\* (master_amount * risk_factor) / 10 thousandths
FollowerAmount(master_amount, entry_price, settings, tieUp) ==
    LET raw == master_amount * settings.risk_factor
    IN  IF Abs(raw) * entry_price > settings.max_position_size * 10000
        THEN Round3(1000 * settings.max_position_size * (IF raw > 0 THEN 1 ELSE 0 - 1),
                    entry_price, tieUp)
        ELSE Round3(raw, 10, tieUp)


\* ----------------------------------------------------------------- ledger
\* INSERT INTO trades of _save_trade: the columns it names; pnl, pnl_percent
\* and master_trade_id keep the default NULL
TradeRow(telegram_id, symbol, position_side, entry_price, size, status) ==
    [telegram_id |-> telegram_id, symbol |-> symbol, position_side |-> position_side,
     entry_price |-> entry_price, size |-> size, status |-> status,
     pnl |-> NULL, pnl_percent |-> NULL, master_trade_id |-> NULL, closed_at |-> NULL]

\* _save_trade: the INSERT, or nothing when sqlite raises (the except logs it)
save_trade(st, telegram_id, symbol, position_side, entry_price, size, status, dbOk, mid) ==
    IF dbOk
    THEN [st EXCEPT !.trades = Append(@, TradeRow(telegram_id, symbol, position_side,
                                                   entry_price, size, status)),
                    !.copiedFrom = Append(@, mid)]
    ELSE st

\* the UPDATE without status = 'OPEN' in its WHERE clause
update_trade_status_anyStatus(st, telegram_id, symbol, status, dbOk) ==
    IF dbOk
    THEN [st EXCEPT !.trades =
            [i \in 1..Len(@) |->
                IF /\ @[i].telegram_id = telegram_id
                   /\ @[i].symbol = symbol
                THEN [@[i] EXCEPT !.status = status, !.closed_at = Value(Now)]
                ELSE @[i]]]
    ELSE st

\* _update_trade_status with pnl = None and pnl_percent = None: every OPEN row
\* of the follower on the symbol gets the status and closed_at
update_trade_status(st, telegram_id, symbol, status, dbOk) ==
    IF dbOk
    THEN [st EXCEPT !.trades =
            [i \in 1..Len(@) |->
                IF /\ @[i].telegram_id = telegram_id
                   /\ @[i].symbol = symbol
                   /\ @[i].status = "OPEN"
                THEN [@[i] EXCEPT !.status = status, !.closed_at = Value(Now)]
                ELSE @[i]]]
    ELSE st

\* ---------------------------------------------------------------- gateway
\* the parameters place_order passes to futures_create_order (symbol, side,
\* type, quantity, timeInForce, price, stopPrice: reduceOnly is not among
\* them, so the exchange takes its default, false) and how the call ended
OrderCall(telegram_id, symbol, side, type, quantity, price, stop_price, result) ==
    [telegram_id |-> telegram_id, symbol |-> symbol, side |-> side, type |-> type,
     quantity |-> quantity, price |-> price, stop_price |-> stop_price,
     reduceOnly |-> FALSE, result |-> result]

\* BinanceWebsocketClient.place_order: the call is made; the exchange accepts
\* it or futures_create_order raises.  An accepted MARKET order moves the
\* follower's position.
place_order(st, telegram_id, symbol, side, type, quantity, price, stop_price, accepted) ==
    LET call == OrderCall(telegram_id, symbol, side, type, quantity, price, stop_price,
                          IF accepted THEN "accepted" ELSE "raised")
        delta == IF side = "BUY" THEN quantity ELSE 0 - quantity
    IN  [st EXCEPT !.orders = Append(@, call),
                   !.fpos = IF accepted /\ type = "MARKET"
                            THEN [@ EXCEPT ![telegram_id][symbol] = @ + delta]
                            ELSE @]

\* ----------------------------------------------------------------- engine
\* What the environment decides while one follower is served on an opening:
\* failAt is the call of place_order that raises (1 MARKET, 2 LIMIT, 3
\* STOP_MARKET, 0 none) and dbOk whether the INSERT succeeds.  A raising call
\* ends the try block, so at most one call raises per follower.
OpenEnvs == [failAt : 0..3, dbOk : BOOLEAN]

\* What the environment decides while one follower is served on a closing:
\* the first step that fails, if any
CloseEnvs == {"ok", "positions_error", "lookup_error", "order_raised",
              "cancel_raised", "db_error"}

\* the body with a place_order that logs the error of the exchange and
\* returns instead of raising it again: the trade is saved and the protective
\* orders are placed whatever became of the MARKET order
OpenForFollower_notRaised(st, fc, symbol, position_side, master_amount, entry_price, e, tieUp, mid) ==
    LET settings == fc.settings
        quantity == Abs(FollowerAmount(master_amount, entry_price, settings, tieUp))
        side == IF position_side = "LONG" THEN "BUY" ELSE "SELL"
        exit == IF position_side = "LONG" THEN "SELL" ELSE "BUY"
        s1 == place_order(st, fc.telegram_id, symbol, side, "MARKET", quantity,
                          NoPrice, NoPrice, e.failAt # 1)
        s2 == save_trade(s1, fc.telegram_id, symbol, position_side, entry_price,
                         quantity * entry_price, "OPEN", e.dbOk, mid)
        s3 == IF settings.take_profit > 0
              THEN place_order(s2, fc.telegram_id, symbol, exit, "LIMIT", quantity,
                               entry_price * (IF position_side = "LONG"
                                              THEN 100 + settings.take_profit
                                              ELSE 100 - settings.take_profit),
                               NoPrice, e.failAt # 2)
              ELSE s2
    IN  IF settings.stop_loss > 0
        THEN place_order(s3, fc.telegram_id, symbol, exit, "STOP_MARKET", quantity,
                         NoPrice,
                         entry_price * (IF position_side = "LONG"
                                        THEN 100 - settings.stop_loss
                                        ELSE 100 + settings.stop_loss),
                         e.failAt # 3)
        ELSE s3

\* body of the loop of _copy_position_open for one entry of follower_clients
OpenForFollower(st, fc, symbol, position_side, master_amount, entry_price, e, tieUp, mid) ==
    LET settings == fc.settings
        follower_amount == FollowerAmount(master_amount, entry_price, settings, tieUp)
        quantity == Abs(follower_amount)
        side == IF position_side = "LONG" THEN "BUY" ELSE "SELL"
        exit == IF position_side = "LONG" THEN "SELL" ELSE "BUY"
        tp_price == IF position_side = "LONG"
                    THEN entry_price * (100 + settings.take_profit)
                    ELSE entry_price * (100 - settings.take_profit)
        sl_price == IF position_side = "LONG"
                    THEN entry_price * (100 - settings.stop_loss)
                    ELSE entry_price * (100 + settings.stop_loss)
        s1 == place_order(st, fc.telegram_id, symbol, side, "MARKET", quantity,
                          NoPrice, NoPrice, e.failAt # 1)
        s2 == save_trade(s1, fc.telegram_id, symbol, position_side, entry_price,
                         quantity * entry_price, "OPEN", e.dbOk, mid)
        s3 == IF settings.take_profit > 0
              THEN place_order(s2, fc.telegram_id, symbol, exit, "LIMIT", quantity,
                               tp_price, NoPrice, e.failAt # 2)
              ELSE s2
        s4 == IF settings.stop_loss > 0
              THEN place_order(s3, fc.telegram_id, symbol, exit, "STOP_MARKET", quantity,
                               NoPrice, sl_price, e.failAt # 3)
              ELSE s3
    IN  IF e.failAt = 1 THEN s1
        ELSE IF settings.take_profit > 0 /\ e.failAt = 2 THEN s3
        ELSE s4

\* the loop with the try around it instead of inside it: the first call that
\* raises ends the fan-out
RECURSIVE copy_position_open_tryOutside(_, _, _, _, _, _, _, _, _)
copy_position_open_tryOutside(st, clients, symbol, position_side, master_amount, entry_price, env, tieUp, mid) ==
    IF clients = <<>> THEN st
    ELSE LET served == OpenForFollower(st, Head(clients), symbol, position_side,
                                       master_amount, entry_price,
                                       env[Head(clients).telegram_id], tieUp, mid)
             raised == \E k \in 1..Len(served.orders) :
                          /\ served.orders[k].telegram_id = Head(clients).telegram_id
                          /\ served.orders[k].result = "raised"
         IN  IF raised THEN served
             ELSE copy_position_open_tryOutside(served, Tail(clients), symbol,
                                                position_side, master_amount,
                                                entry_price, env, tieUp, mid)

\* _copy_position_open: the loop over follower_clients, in insertion order
RECURSIVE copy_position_open(_, _, _, _, _, _, _, _, _)
copy_position_open(st, clients, symbol, position_side, master_amount, entry_price, env, tieUp, mid) ==
    IF clients = <<>> THEN st
    ELSE copy_position_open(
            OpenForFollower(st, Head(clients), symbol, position_side, master_amount,
                            entry_price, env[Head(clients).telegram_id], tieUp, mid),
            Tail(clients), symbol, position_side, master_amount, entry_price,
            env, tieUp, mid)

\* the body of the loop with a get_positions that also lists the entries
\* whose positionAmt is 0
CloseForFollower_unfiltered(st, fc, symbol, c) ==
    LET telegram_id == fc.telegram_id
        positionAmt == st.fpos[telegram_id][symbol]
        found == hedgeMode /\ c # "lookup_error"
        s1 == IF found
              THEN place_order(st, telegram_id, symbol,
                               IF positionAmt > 0 THEN "SELL" ELSE "BUY",
                               "MARKET", Abs(positionAmt), NoPrice, NoPrice,
                               c # "order_raised")
              ELSE st
        s2 == update_trade_status(s1, telegram_id, symbol, "CLOSED", c # "db_error")
    IN  IF c = "positions_error" THEN st
        ELSE IF found /\ c = "order_raised" THEN s1
        ELSE IF c = "cancel_raised" THEN s1
        ELSE s2

\* body of the loop of _copy_position_close for one entry of follower_clients
CloseForFollower(st, fc, symbol, c) ==
    LET telegram_id == fc.telegram_id
        positionAmt == st.fpos[telegram_id][symbol]
        \* get_positions: the entries with positionAmt # 0, [] when the call raises
        listed == c # "positions_error" /\ positionAmt # 0
        position_side == IF positionAmt > 0 THEN "LONG" ELSE "SHORT"
        \* close_position looks for an entry whose positionSide is LONG or SHORT:
        \* there is one only in hedge mode (one-way entries say BOTH)
        found == hedgeMode /\ c # "lookup_error"
        s1 == IF found
              THEN place_order(st, telegram_id, symbol,
                               IF positionAmt > 0 THEN "SELL" ELSE "BUY",
                               "MARKET", Abs(positionAmt), NoPrice, NoPrice,
                               c # "order_raised")
              ELSE st
        s2 == update_trade_status(s1, telegram_id, symbol, "CLOSED", c # "db_error")
    IN  IF ~listed THEN st
        ELSE IF found /\ c = "order_raised" THEN s1
        ELSE IF c = "cancel_raised" THEN s1
        ELSE s2

\* _copy_position_close: the loop over follower_clients, in insertion order
RECURSIVE copy_position_close(_, _, _, _)
copy_position_close(st, clients, symbol, env) ==
    IF clients = <<>> THEN st
    ELSE copy_position_close(
            CloseForFollower(st, Head(clients), symbol, env[Head(clients).telegram_id]),
            Tail(clients), symbol, env)

RECURSIVE Sum(_, _)
Sum(f, S) == IF S = {} THEN 0
             ELSE LET x == CHOOSE y \in S : TRUE IN f[x] + Sum(f, S \ {x})

OpenFaults(env) ==
    Sum([f \in Followers |-> (IF env[f].failAt # 0 THEN 1 ELSE 0)
                              + (IF env[f].dbOk THEN 0 ELSE 1)], Followers)
CloseFaults(env) ==
    Sum([f \in Followers |-> IF env[f] # "ok" THEN 1 ELSE 0], Followers)

\* CopyTrader._on_master_position_update for an ACCOUNT_UPDATE that carries
\* one position (s, pa, ep): a closing when pa = 0, an opening otherwise.
\* mid is the master position the event is about.  The result is the ledger,
\* the calls of place_order and the followers' positions after the handler.
on_master_position_update(tr, cf, fp, clients, symbol, pa, ep, mid, envOpen, envClose, tieUp) ==
    LET st0 == [trades |-> tr, copiedFrom |-> cf, orders |-> <<>>, fpos |-> fp]
        position_side == IF pa > 0 THEN "LONG" ELSE "SHORT"
    IN  IF pa = 0
        THEN copy_position_close(st0, clients, symbol, envClose)
        ELSE copy_position_open(st0, clients, symbol, position_side,
                                pa, ep, envOpen, tieUp, mid)

AllOk == [f \in Followers |-> "ok"]
AllAccepted == [f \in Followers |-> [failAt |-> 0, dbOk |-> TRUE]]

\* what is remembered of the last master event: the event, what the master did
\* (cause), the price the master closed at (exit), what the environment
\* decided, whether the same event was the one handled just before (repeated)
\* and whether the handler changed the ledger (wrote)
Event(cause, symbol, pa, ep, exit, mid, envOpen, envClose, tieUp) ==
    [kind |-> IF pa = 0 THEN "close" ELSE "open", cause |-> cause, symbol |-> symbol,
     pa |-> pa, ep |-> ep, exit |-> exit, id |-> mid,
     envOpen |-> envOpen, envClose |-> envClose, tieUp |-> tieUp,
     repeated |-> FALSE, wrote |-> FALSE]

NoEvent == Event("none", "", 0, 0, 0, 0, AllAccepted, AllOk, FALSE)

SameEvent(e1, e2) ==
    /\ e1.kind = e2.kind /\ e1.symbol = e2.symbol /\ e1.pa = e2.pa
    /\ e1.ep = e2.ep /\ e1.id = e2.id /\ e1.cause # "none"

\* the followers of the registry
Registered == { follower_clients[i].telegram_id : i \in 1..Len(follower_clients) }

\* A failure is a failure of a call the handler makes: on an opening the
\* LIMIT order exists only with take_profit > 0, the STOP_MARKET order only
\* with stop_loss > 0 and the INSERT only after an accepted MARKET order; on
\* a closing nothing is called after get_positions for a follower without a
\* position, and the closing order exists only in hedge mode.
CallsMade(ev) ==
    \A f \in Followers :
        IF f \notin { follower_clients[i].telegram_id : i \in 1..Len(follower_clients) }
        THEN ev.envOpen[f] = [failAt |-> 0, dbOk |-> TRUE] /\ ev.envClose[f] = "ok"
        ELSE LET settings == (CHOOSE c \in { follower_clients[i] : i \in 1..Len(follower_clients) } :
                                 c.telegram_id = f).settings
             IN  /\ ev.envOpen[f].failAt = 2 => settings.take_profit > 0
                 /\ ev.envOpen[f].failAt = 3 => settings.stop_loss > 0
                 /\ ev.envOpen[f].failAt = 1 => ev.envOpen[f].dbOk
                 /\ (ev.kind = "close" /\ fpos[f][ev.symbol] = 0) => ev.envClose[f] = "ok"
                 /\ ev.envClose[f] \in {"lookup_error", "order_raised"} => hedgeMode

\* the stream delivers event ev and the handler runs to its end
Deliver(ev) ==
    LET st1 == on_master_position_update(trades, copiedFrom, fpos, follower_clients,
                                         ev.symbol, ev.pa, ev.ep, ev.id,
                                         ev.envOpen, ev.envClose, ev.tieUp)
    IN  /\ OpenFaults(ev.envOpen) + CloseFaults(ev.envClose) <= nFaults
        /\ CallsMade(ev)
        /\ trades' = st1.trades
        /\ copiedFrom' = st1.copiedFrom
        /\ orders' = st1.orders
        /\ fpos' = st1.fpos
        /\ lastEvent' = [ev EXCEPT !.repeated = SameEvent(lastEvent, ev),
                                   !.wrote = (st1.trades # trades)]
        /\ nEvents' = nEvents - 1
        /\ nFaults' = nFaults - (OpenFaults(ev.envOpen) + CloseFaults(ev.envClose))

SignedAmount(key, amt) == IF key[2] = "LONG" THEN amt ELSE 0 - amt

\* round(x, 3) has two possible results only when x is exactly halfway
\* between two thousandths for some follower
HalfWay(master_amount, entry_price, settings) ==
    LET raw == master_amount * settings.risk_factor
    IN  IF Abs(raw) * entry_price > settings.max_position_size * 10000
        THEN 2 * ((1000 * settings.max_position_size) % entry_price) = entry_price
        ELSE 2 * (Abs(raw) % 10) = 10

TieChoices(pa, ep) ==
    IF \E i \in 1..Len(follower_clients) : HalfWay(pa, ep, follower_clients[i].settings)
    THEN BOOLEAN ELSE {FALSE}


\* what the environment may decide for the followers during one event: no
\* failure once the failures of the run are used up
OpenEnvChoices == IF nFaults = 0 THEN {AllAccepted} ELSE [Followers -> OpenEnvs]
CloseEnvChoices == IF nFaults = 0 THEN {AllOk} ELSE [Followers -> CloseEnvs]

\* The stream delivers events only while the engine runs (start() starts the
\* master client).
CanDeliver == running /\ nEvents > 0

\* the master opens a position: ACCOUNT_UPDATE with pa # 0
MasterOpens(key, amt, ep) ==
    /\ CanDeliver
    /\ mpos[key].amt = 0
    /\ mpos' = [mpos EXCEPT ![key] = [amt |-> amt, ep |-> ep, id |-> nextMasterId,
                                      exit |-> 0]]
    /\ nextMasterId' = nextMasterId + 1
    /\ \E envOpen \in OpenEnvChoices, tieUp \in TieChoices(SignedAmount(key, amt), ep) :
          Deliver(Event("opened", key[1], SignedAmount(key, amt), ep, 0, nextMasterId,
                        envOpen, AllOk, tieUp))
    /\ UNCHANGED <<users, running, follower_clients, hedgeMode, nCommands, scale>>
    /\ UNCHANGED AsyncVars
    /\ UNCHANGED ClientVars

\* the master changes the size of an open position: ACCOUNT_UPDATE with the
\* new pa # 0
MasterResizes(key, amt, ep) ==
    /\ CanDeliver
    /\ mpos[key].amt # 0
    /\ mpos[key].amt # amt
    /\ mpos' = [mpos EXCEPT ![key].amt = amt, ![key].ep = ep]
    /\ \E envOpen \in OpenEnvChoices, tieUp \in TieChoices(SignedAmount(key, amt), ep) :
          Deliver(Event("resized", key[1], SignedAmount(key, amt), ep, 0, mpos[key].id,
                        envOpen, AllOk, tieUp))
    /\ UNCHANGED <<users, running, follower_clients, hedgeMode, nCommands, scale, nextMasterId>>
    /\ UNCHANGED AsyncVars
    /\ UNCHANGED ClientVars

\* the master closes a position at price exit: ACCOUNT_UPDATE with pa = 0
MasterCloses(key, exit) ==
    /\ CanDeliver
    /\ mpos[key].amt # 0
    /\ mpos' = [mpos EXCEPT ![key].amt = 0, ![key].ep = 0, ![key].exit = exit]
    /\ \E envClose \in CloseEnvChoices :
          Deliver(Event("closed", key[1], 0, 0, exit, mpos[key].id,
                        AllAccepted, envClose, FALSE))
    /\ UNCHANGED <<users, running, follower_clients, hedgeMode, nCommands, scale, nextMasterId>>
    /\ UNCHANGED AsyncVars
    /\ UNCHANGED ClientVars

\* the stream delivers the state of a position again (an ACCOUNT_UPDATE for
\* another reason such as a funding fee, or a replay after a reconnect)
Redelivered(key) ==
    /\ CanDeliver
    /\ mpos[key].id # 0
    /\ \E envOpen \in (IF mpos[key].amt = 0 THEN {AllAccepted} ELSE OpenEnvChoices),
          envClose \in (IF mpos[key].amt # 0 THEN {AllOk} ELSE CloseEnvChoices),
          tieUp \in TieChoices(SignedAmount(key, mpos[key].amt), mpos[key].ep) :
          Deliver(Event("redelivered", key[1], SignedAmount(key, mpos[key].amt),
                        mpos[key].ep, mpos[key].exit, mpos[key].id,
                        envOpen, envClose, tieUp))
    /\ UNCHANGED <<users, running, follower_clients, hedgeMode, nCommands, scale, mpos, nextMasterId>>
    /\ UNCHANGED AsyncVars
    /\ UNCHANGED ClientVars

\* ------------------------------------------------------------- start-up
\* the followers of S in the order of their rows in the table users (a SELECT
\* without ORDER BY scans the table in rowid order); F1 registered first
RowOrder(S) ==
    (IF "F1" \in S THEN <<"F1">> ELSE <<>>) \o (IF "F2" \in S THEN <<"F2">> ELSE <<>>)

Settings(u) ==
    [risk_factor |-> u.risk_factor, max_position_size |-> u.max_position_size,
     take_profit |-> u.take_profit, stop_loss |-> u.stop_loss]

\* the rows _load_active_users selects
ActiveUsers(table) == { f \in Followers : table[f].is_active /\ table[f].has_keys }

\* _load_active_users and _init_follower_client: one entry per selected row,
\* holding the settings the row has at this moment
load_active_users(table, order) ==
    [i \in 1..Len(order) |->
        [telegram_id |-> order[i], settings |-> Settings(table[order[i]])]]

\* start_copy_trader of the bot: CopyTrader(...) and start()
Start ==
    /\ ~running
    /\ running' = TRUE
    /\ follower_clients' = load_active_users(users, RowOrder(ActiveUsers(users)))
    /\ UNCHANGED <<users, trades, copiedFrom, orders, lastEvent, mpos, nextMasterId,
                   nEvents, nFaults, fpos, hedgeMode, nCommands, scale>>
    /\ UNCHANGED AsyncVars
    /\ UNCHANGED ClientVars

UserRow(is_active, has_keys, r) ==
    [is_active |-> is_active, has_keys |-> has_keys, risk_factor |-> r.risk_factor,
     max_position_size |-> r.max_position_size, take_profit |-> r.take_profit,
     stop_loss |-> r.stop_loss]

SettingsA == [risk_factor |-> 1,  max_position_size |-> 1000, take_profit |-> 5, stop_loss |-> 0]
SettingsB == [risk_factor |-> 10, max_position_size |-> 100,  take_profit |-> 0, stop_loss |-> 3]

\* what is remembered of the last call into the asynchronous package: the
\* function, the master order (with the price of its fill) or the (follower,
\* master trade) it was about and the id it returned (0 when it returned none)
Call(call, order_id, avg_price, telegram_id, master_trade_id, value) ==
    [call |-> call, order_id |-> order_id, avg_price |-> avg_price,
     telegram_id |-> telegram_id, master_trade_id |-> master_trade_id, value |-> value]

NoCall == Call("none", 0, 0, "", 0, 0)

NoScale == [master_amount |-> 0, entry_price |-> 0, risk_factor |-> 0,
            max_position_size |-> 0, tieUp |-> FALSE, done |-> FALSE, quantity |-> 0]

InitWith(events, faults, commands) ==
    /\ users = [f \in Followers |->
                    UserRow(TRUE, TRUE, IF f = "F1" THEN SettingsA ELSE SettingsB)]
    /\ running = FALSE
    /\ follower_clients = <<>>
    /\ trades = <<>>
    /\ copiedFrom = <<>>
    /\ orders = <<>>
    /\ lastEvent = NoEvent
    /\ mpos = [k \in Keys |-> [amt |-> 0, ep |-> 0, id |-> 0, exit |-> 0]]
    /\ nextMasterId = 1
    /\ nEvents = events
    /\ nFaults = faults
    /\ nCommands = commands
    /\ fpos = [f \in Followers |-> [s \in Symbols |-> 0]]
    /\ hedgeMode \in BOOLEAN
    /\ master_trades = <<>>
    /\ lock = "free"
    /\ returned = NoCall
    /\ user_clients = <<>>
    /\ initialized = FALSE
    /\ sessions = [f \in Followers |-> "none"]
    /\ morders = <<>>
    /\ async_running = FALSE
    /\ websocket_task = 0
    /\ tasks = <<>>
    /\ stopped = FALSE
    /\ keep_running = FALSE
    /\ threads = <<>>
    /\ conns = <<>>
    /\ ws = 0
    /\ loading = <<>>
    /\ log = <<>>

MasterEvent ==
    \/ \E key \in Keys, amt \in MasterAmounts, ep \in EntryPrices : MasterOpens(key, amt, ep)
    \/ \E key \in Keys, amt \in MasterAmounts, ep \in EntryPrices : MasterResizes(key, amt, ep)
    \/ \E key \in Keys, exit \in ExitPrices : MasterCloses(key, exit)
    \/ \E key \in Keys : Redelivered(key)

\* the engine on its own: the followers registered when it starts, the master
\* stream, the exchange, the ledger
Init == InitWith(MaxEvents, MaxFaults, 0) /\ scale = NoScale /\ nOrders = 0

Next ==
    \/ Start
    \/ MasterEvent

Spec == Init /\ [][Next]_vars

\* ------------------------------------------------------ chat commands
None == 0 - 1

\* update_risk_settings of the bot: a value that is not given keeps the
\* current one, or takes the default when the current one is 0 or NULL
update_risk_settings(table, telegram_id, risk_factor, max_position_size, take_profit, stop_loss) ==
    LET cur == table[telegram_id]
    IN  [table EXCEPT
            ![telegram_id].risk_factor =
                IF risk_factor # None THEN risk_factor
                ELSE IF cur.risk_factor # 0 THEN cur.risk_factor ELSE 10,
            ![telegram_id].max_position_size =
                IF max_position_size # None THEN max_position_size
                ELSE IF cur.max_position_size # 0 THEN cur.max_position_size ELSE 100,
            ![telegram_id].take_profit =
                IF take_profit # None THEN take_profit
                ELSE IF cur.take_profit # 0 THEN cur.take_profit ELSE 0,
            ![telegram_id].stop_loss =
                IF stop_loss # None THEN stop_loss
                ELSE IF cur.stop_loss # 0 THEN cur.stop_loss ELSE 0]

\* arguments of /risk that pass its validation (0 < risk_factor <= 10,
\* 0 < max_position_size <= 1000)
RiskArgs == { <<1, 1000, 5, 0>>, <<10, 100, 0, 3>>, <<5, None, None, None>> }

EngineVars == <<running, follower_clients, trades, copiedFrom, orders, lastEvent,
                mpos, nextMasterId, nEvents, nFaults, fpos, hedgeMode, scale,
                master_trades, lock, returned, morders, nOrders, async_running,
                websocket_task, tasks, stopped, user_clients, initialized, sessions,
                keep_running, threads, conns, ws, loading, log>>

Command == nCommands > 0 /\ nCommands' = nCommands - 1

\* /risk with arguments: the row of the user in the table users is updated
handle_risk_command(f, args) ==
    /\ Command
    /\ users[f].has_keys
    /\ users' = update_risk_settings(users, f, args[1], args[2], args[3], args[4])
    /\ UNCHANGED EngineVars

\* /stop: is_active = 0 in the table users
handle_stop_command(f) ==
    /\ Command
    /\ users' = [users EXCEPT ![f].is_active = FALSE]
    /\ UNCHANGED EngineVars

\* /unregister: is_active = 0, risk_factor = 0 and the keys set to NULL; the
\* engine has no reload_users, so the hasattr test skips the reload
handle_unregister_command(f) ==
    /\ Command
    /\ users[f].has_keys
    /\ users' = [users EXCEPT ![f].is_active = FALSE, ![f].risk_factor = 0,
                              ![f].has_keys = FALSE]
    /\ UNCHANGED EngineVars

\* /subscribe of a user with keys who is not active: is_active = 1, default
\* risk settings when risk_factor is 0; copy_trader.reload_users() then raises
\* AttributeError, after the commit
handle_subscribe_command(f) ==
    /\ Command
    /\ users[f].has_keys
    /\ ~users[f].is_active
    /\ users' = IF users[f].risk_factor = 0
                THEN update_risk_settings([users EXCEPT ![f].is_active = TRUE], f,
                                          None, None, None, None)
                ELSE [users EXCEPT ![f].is_active = TRUE]
    /\ UNCHANGED EngineVars

\* /api with both keys: the keys are stored and update_risk_settings(id)
\* fills in the defaults
handle_api_command(f) ==
    /\ Command
    /\ users' = update_risk_settings([users EXCEPT ![f].has_keys = TRUE], f,
                                     None, None, None, None)
    /\ UNCHANGED EngineVars

\* /start of a known user: is_active = 1, then start_copy_trader(), which
\* creates and starts the engine unless one is running
handle_start_command(f) ==
    /\ Command
    /\ users' = [users EXCEPT ![f].is_active = TRUE]
    /\ running' = TRUE
    /\ follower_clients' = IF running THEN follower_clients
                           ELSE load_active_users(users', RowOrder(ActiveUsers(users')))
    /\ UNCHANGED <<trades, copiedFrom, orders, lastEvent, mpos, nextMasterId, nEvents,
                   nFaults, fpos, hedgeMode, scale>>
    /\ UNCHANGED AsyncVars
    /\ UNCHANGED ClientVars

ChatCommand ==
    \/ \E f \in Followers, args \in RiskArgs : handle_risk_command(f, args)
    \/ \E f \in Followers : handle_stop_command(f)
    \/ \E f \in Followers : handle_unregister_command(f)
    \/ \E f \in Followers : handle_subscribe_command(f)
    \/ \E f \in Followers : handle_api_command(f)
    \/ \E f \in Followers : handle_start_command(f)

\* the engine together with the chat commands that write the table users
InitBot == InitWith(MaxBotEvents, 0, MaxCommands) /\ scale = NoScale /\ nOrders = 0

NextBot ==
    \/ Start
    \/ MasterEvent
    \/ ChatCommand

SpecBot == InitBot /\ [][NextBot]_vars

\* ------------------------------------------- the asynchronous engine
\* CopyTrader and Database of the package src: the engine that reacts to
\* ORDER_TRADE_UPDATE messages and keeps master_trades.  Quantities are in
\* thousandths, prices in whole USDT, pnl in 1/1000 USDT and pnl_percent in
\* 1/100 percent.
MaxOrders == 3          \* messages about master orders in one run
MaxTasks == 4           \* listen_for_master_trades tasks created in one run

OrderSides == {"BUY", "SELL"}
OrderPrices == {0, 50000}       \* 'p' of the message: 0 for a MARKET order
FillPrices == {40000, 51000}    \* 'ap' of the message
OrderQuantities == {60, 100}    \* 'q' of the message

\* a row of master_trades as add_master_trade inserts it from trade_data
MasterTradeRow(id, symbol, order_id, position_side, entry_price, size) ==
    [id |-> id, symbol |-> symbol, order_id |-> order_id, position_side |-> position_side,
     entry_price |-> entry_price, size |-> size, status |-> "OPEN",
     pnl |-> NULL, pnl_percent |-> NULL, closed_at |-> NULL]

\* Database.add_master_trade: INSERT, the new id is lastrowid
add_master_trade(table, symbol, order_id, position_side, entry_price, size) ==
    Append(table, MasterTradeRow(Len(table) + 1, symbol, order_id, position_side,
                                 entry_price, size))

\* Database.update_master_trade with update_data = {status, closed_at, pnl, pnl_percent}
update_master_trade(table, trade_id, status, pnl, pnl_percent) ==
    [table EXCEPT ![trade_id] = [@ EXCEPT !.status = status, !.closed_at = Value(Now),
                                          !.pnl = Value(pnl),
                                          !.pnl_percent = Value(pnl_percent)]]

\* Database.get_master_open_trades
get_master_open_trades(table) == SelectSeq(table, LAMBDA t : t.status = "OPEN")

\* Database.add_user_trade: the INSERT is committed, then add_audit_log is
\* awaited while the lock is still held; add_audit_log waits for the same
\* lock (asyncio.Lock is not reentrant), so the call does not return and the
\* lock stays held
add_user_trade(st, telegram_id, symbol, position_side, entry_price, size, master_trade_id) ==
    [st EXCEPT !.trades = Append(@, [TradeRow(telegram_id, symbol, position_side,
                                              entry_price, size, "OPEN")
                                     EXCEPT !.master_trade_id = Value(master_trade_id)]),
               !.copiedFrom = Append(@, master_trade_id),
               !.lock = "held"]

\* Database.update_user_trade with status CLOSED and a pnl: the UPDATE is
\* committed, then add_audit_log is awaited under the lock as above
update_user_trade(st, trade_id, status, pnl, pnl_percent) ==
    [st EXCEPT !.trades[trade_id] = [@ EXCEPT !.status = status, !.closed_at = Value(Now),
                                              !.pnl = Value(pnl),
                                              !.pnl_percent = Value(pnl_percent)],
               !.lock = "held"]

\* copy_trade_to_users (called by handle_new_master_order, not defined in
\* the package): every follower of the registry is handed one opening MARKET
\* order scaled by its risk settings and its trade is recorded with
\* add_user_trade.  The first add_user_trade does not return, so the fan-out
\* stops after the first follower of user_clients.
copy_trade_to_users(st, master_trade_id, symbol, position_side, entry_price, size) ==
    IF user_clients = <<>> THEN st
    ELSE LET telegram_id == Head(user_clients)
             signed == IF position_side = "LONG" THEN size ELSE 0 - size
             amount == IF entry_price.isNull
                       THEN Round3(signed * users[telegram_id].risk_factor, 10, FALSE)
                       ELSE FollowerAmount(signed, entry_price.v,
                                           Settings(users[telegram_id]), FALSE)
             s1 == place_order(st, telegram_id, symbol,
                               IF position_side = "LONG" THEN "BUY" ELSE "SELL",
                               "MARKET", Abs(amount), NoPrice, NoPrice, TRUE)
         IN  add_user_trade(s1, telegram_id, symbol, position_side, entry_price.v,
                            Abs(amount), master_trade_id)

\* close_user_trades (called by handle_filled_master_order, not defined in
\* the package): every OPEN follower trade copied from the master trade is
\* flattened at the exchange and closed with its PnL by update_user_trade.
\* The first update_user_trade does not return.
close_user_trades(st, master_trade_id, avg_price) ==
    LET open == { i \in 1..Len(st.trades) :
                     /\ st.trades[i].status = "OPEN"
                     /\ st.trades[i].master_trade_id = Value(master_trade_id) }
    IN  IF open = {} THEN st
        ELSE LET i == CHOOSE j \in open : \A k \in open : j <= k
                 row == st.trades[i]
                 long == row.position_side = "LONG"
                 move == IF long THEN avg_price - row.entry_price
                         ELSE row.entry_price - avg_price
                 s1 == place_order(st, row.telegram_id, row.symbol,
                                   IF long THEN "SELL" ELSE "BUY", "MARKET",
                                   row.size, NoPrice, NoPrice, TRUE)
             IN  update_user_trade(s1, i, "CLOSED", row.size * move,
                                   IF row.entry_price = 0 THEN 0
                                   ELSE (move * 10000) \div row.entry_price)

\* the loop of handle_filled_master_order over the OPEN master trades read at
\* its start.  A trade of the symbol whose side is opposite to the fill is
\* closed with pnl computed from executed_qty; entry_price None makes the
\* subtraction raise TypeError, which ends the handler (the except logs it).
\* A call of close_user_trades that does not return ends it as well.
\* the test without the sides: every trade of the symbol counts as closed
is_closing_order_any(position_side, side) == TRUE

\* is_closing_order of handle_filled_master_order: a SELL fill closes a LONG
\* trade and a BUY fill a SHORT one
is_closing_order(position_side, side) ==
    \/ (position_side = "LONG" /\ side = "SELL")
    \/ (position_side = "SHORT" /\ side = "BUY")

RECURSIVE FilledLoop(_, _, _, _, _, _)
FilledLoop(st, open_trades, symbol, side, avg_price, executed_qty) ==
    IF open_trades = <<>> THEN st
    ELSE LET trade == Head(open_trades)
             position_side == trade.position_side
             entry_price == trade.entry_price.v
             pnl == IF position_side = "LONG"
                    THEN executed_qty * (avg_price - entry_price)
                    ELSE executed_qty * (entry_price - avg_price)
             pnl_percent == IF position_side = "LONG"
                            THEN ((avg_price - entry_price) * 10000) \div entry_price
                            ELSE ((entry_price - avg_price) * 10000) \div avg_price
             s1 == [st EXCEPT !.master_trades =
                       update_master_trade(@, trade.id, "CLOSED", pnl, pnl_percent)]
             s2 == close_user_trades(s1, trade.id, avg_price)
         IN  IF trade.symbol = symbol /\ is_closing_order(position_side, side)
             THEN IF trade.entry_price.isNull THEN st
                  ELSE IF s2.lock = "held" THEN s2
                  ELSE FilledLoop(s2, Tail(open_trades), symbol, side, avg_price,
                                  executed_qty)
             ELSE FilledLoop(st, Tail(open_trades), symbol, side, avg_price, executed_qty)

\* the part of the state the handlers of the asynchronous engine work on
AsyncState ==
    [master_trades |-> master_trades, trades |-> trades, copiedFrom |-> copiedFrom,
     orders |-> <<>>, fpos |-> fpos, lock |-> lock]

\* the handler ran from state AsyncState to st
Handled(st) ==
    /\ master_trades' = st.master_trades
    /\ trades' = st.trades
    /\ copiedFrom' = st.copiedFrom
    /\ orders' = st.orders
    /\ fpos' = st.fpos
    /\ lock' = st.lock
    /\ nOrders' = nOrders - 1
    /\ UNCHANGED <<users, running, follower_clients, lastEvent, mpos, nextMasterId,
                   nEvents, nFaults, hedgeMode, nCommands, scale, async_running,
                   websocket_task, tasks, stopped, user_clients, initialized, sessions>>
    /\ UNCHANGED ClientVars

MasterOrder(order_id, symbol, side, quantity, price, status) ==
    [order_id |-> order_id, symbol |-> symbol, side |-> side, quantity |-> quantity,
     price |-> price, status |-> status]

\* ORDER_TRADE_UPDATE with x = NEW and X = NEW for a new order of the master
\* (ps = BOTH): process_master_account_message calls this handler.  With the
\* lock held the first call of the Database does not return.
handle_new_master_order(symbol, side, quantity, price, positions_ok) ==
    LET order_id == Len(morders) + 1
        position_side == IF side = "BUY" THEN "LONG" ELSE "SHORT"
        entry_price == IF price > 0 THEN Value(price) ELSE NULL
        s1 == [AsyncState EXCEPT !.master_trades =
                  add_master_trade(@, symbol, order_id, position_side, entry_price,
                                   quantity)]
        s2 == copy_trade_to_users(s1, Len(s1.master_trades), symbol, position_side,
                                  entry_price, quantity)
    IN  /\ nOrders > 0
        /\ morders' = Append(morders, MasterOrder(order_id, symbol, side, quantity,
                                                  price, "NEW"))
        /\ returned' = Call("handle_new_master_order", order_id, 0, "", 0, 0)
        /\ Handled(IF positions_ok /\ lock = "free" THEN s2 ELSE AsyncState)

\* ORDER_TRADE_UPDATE with x = TRADE and X = FILLED for an order of the master
handle_filled_master_order(order_id, avg_price) ==
    /\ nOrders > 0
    /\ order_id \in 1..Len(morders)
    /\ morders[order_id].status = "NEW"
    /\ morders' = [morders EXCEPT ![order_id].status = "FILLED"]
    /\ returned' = Call("handle_filled_master_order", order_id, avg_price, "", 0, 0)
    /\ Handled(IF lock = "free"
               THEN FilledLoop(AsyncState, get_master_open_trades(master_trades),
                               morders[order_id].symbol, morders[order_id].side,
                               avg_price, morders[order_id].quantity)
               ELSE AsyncState)

\* ORDER_TRADE_UPDATE with x = CANCELED and X = CANCELED: the body of the
\* handler is pass
handle_canceled_master_order(order_id) ==
    /\ nOrders > 0
    /\ order_id \in 1..Len(morders)
    /\ morders[order_id].status = "NEW"
    /\ morders' = [morders EXCEPT ![order_id].status = "CANCELED"]
    /\ returned' = Call("handle_canceled_master_order", order_id, 0, "", 0, 0)
    /\ Handled(AsyncState)

\* a caller awaits Database.add_user_trade for follower telegram_id and the
\* OPEN master trade master_trade_id; the call inserts and does not return
AddUserTrade(telegram_id, master_trade_id) ==
    LET m == master_trades[master_trade_id]
    IN  /\ nOrders > 0
        /\ lock = "free"
        /\ master_trade_id \in 1..Len(master_trades)
        /\ m.status = "OPEN"
        /\ returned' = Call("add_user_trade", m.order_id, 0, telegram_id, master_trade_id, 0)
        /\ morders' = morders
        /\ Handled(add_user_trade(AsyncState, telegram_id, m.symbol, m.position_side,
                                  m.entry_price.v, m.size, master_trade_id))

\* the task that waits in add_audit_log for the lock it holds is cancelled
\* (a timeout of its caller, stop()): CancelledError leaves the async with
\* block of the outer call, which releases the lock
CallerCancelled ==
    /\ lock = "held"
    /\ lock' = "free"
    /\ returned' = Call("cancelled", 0, 0, "", 0, 0)
    /\ UNCHANGED <<users, running, follower_clients, trades, copiedFrom, orders,
                   lastEvent, mpos, nextMasterId, nEvents, nFaults, fpos, hedgeMode,
                   nCommands, scale, master_trades, morders, nOrders, async_running,
                   websocket_task, tasks, stopped, user_clients, initialized, sessions>>
    /\ UNCHANGED ClientVars

LedgerVars == <<users, running, follower_clients, trades, copiedFrom, orders,
                lastEvent, mpos, nextMasterId, nEvents, nFaults, fpos, hedgeMode,
                nCommands, scale, master_trades, lock, returned, morders, nOrders,
                keep_running, threads, conns, ws, loading, log>>

\* what is remembered of a call of add_user_client or remove_user_client:
\* the follower, what get_user_api_keys and get_account gave, what it returned
RegistryCall(call, telegram_id, keys_found, account_ok, value) ==
    [call |-> call, telegram_id |-> telegram_id, keys_found |-> keys_found,
     account_ok |-> account_ok, value |-> value]

\* the registry of the asynchronous engine with the sessions of the clients
Registry == [clients |-> user_clients, sessions |-> sessions, value |-> FALSE]

InRegistry(reg, telegram_id) ==
    \E i \in 1..Len(reg.clients) : reg.clients[i] = telegram_id

\* add_user_client without the connection test: the client is registered
\* as soon as keys were found
add_user_client_untested(reg, telegram_id, keys_found, account_ok) ==
    IF InRegistry(reg, telegram_id) THEN [reg EXCEPT !.value = TRUE]
    ELSE IF ~keys_found THEN [reg EXCEPT !.value = FALSE]
    ELSE [reg EXCEPT !.clients = Append(@, telegram_id), !.value = TRUE]

\* CopyTrader.add_user_client: True for a follower already registered; False
\* when get_user_api_keys gives no keys; otherwise a BinanceClient is made
\* and get_account is awaited, which opens the client's session: the client
\* is registered when the call succeeds, and False is returned when it raises
add_user_client(reg, telegram_id, keys_found, account_ok) ==
    IF InRegistry(reg, telegram_id) THEN [reg EXCEPT !.value = TRUE]
    ELSE IF ~keys_found THEN [reg EXCEPT !.value = FALSE]
    ELSE IF ~account_ok
    THEN [reg EXCEPT !.sessions[telegram_id] = "open", !.value = FALSE]
    ELSE [reg EXCEPT !.clients = Append(@, telegram_id),
                     !.sessions[telegram_id] = "open", !.value = TRUE]

\* remove_user_client that forgets every client
remove_user_client_all(reg, telegram_id) ==
    IF ~InRegistry(reg, telegram_id) THEN [reg EXCEPT !.value = FALSE]
    ELSE [reg EXCEPT !.clients = <<>>, !.sessions[telegram_id] = "closed", !.value = TRUE]

\* CopyTrader.remove_user_client: False for a follower that is not
\* registered; otherwise close() of its client, del of its entry and True
remove_user_client(reg, telegram_id) ==
    IF ~InRegistry(reg, telegram_id) THEN [reg EXCEPT !.value = FALSE]
    ELSE [reg EXCEPT !.clients = SelectSeq(@, LAMBDA c : c # telegram_id),
                     !.sessions[telegram_id] = "closed", !.value = TRUE]

\* CopyTrader.initialize: add_user_client for every active user, in the
\* order of get_active_users; the keys are found when the row has them and
\* the connection test succeeds
RECURSIVE initialize(_, _)
initialize(reg, active_users) ==
    IF active_users = <<>> THEN reg
    ELSE initialize(add_user_client(reg, Head(active_users),
                                    users[Head(active_users)].has_keys, TRUE),
                    Tail(active_users))

\* CopyTrader.start of the asynchronous engine: initialize() on the first
\* call (one client per active user with keys), then running = True and a
\* task for listen_for_master_trades kept in websocket_task
start ==
    /\ ~async_running
    /\ websocket_task = 0
    /\ Len(tasks) < MaxTasks
    /\ initialized \/ lock = "free"
    /\ initialized' = TRUE
    /\ user_clients' = IF initialized THEN user_clients
                       ELSE initialize(Registry,
                               RowOrder({ f \in Followers : users[f].is_active })).clients
    /\ sessions' = IF initialized THEN sessions
                   ELSE initialize(Registry,
                           RowOrder({ f \in Followers : users[f].is_active })).sessions
    /\ async_running' = TRUE
    /\ tasks' = Append(tasks, "created")
    /\ websocket_task' = Len(tasks) + 1
    /\ stopped' = FALSE
    /\ UNCHANGED LedgerVars

\* CopyTrader.stop up to its await: running = False and
\* websocket_task.cancel(), which has no effect on a task that has ended
stop ==
    /\ async_running
    /\ async_running' = FALSE
    /\ tasks' = IF tasks[websocket_task] \in {"created", "reconnect_wait"}
                THEN [tasks EXCEPT ![websocket_task] = "cancel_requested"]
                ELSE tasks
    /\ UNCHANGED <<websocket_task, stopped, user_clients, initialized, sessions>>
    /\ UNCHANGED LedgerVars

\* the task whose cancellation was requested gets CancelledError at its await
\* and ends
TaskCancelled(t) ==
    /\ t \in 1..Len(tasks)
    /\ tasks[t] = "cancel_requested"
    /\ tasks' = [tasks EXCEPT ![t] = "cancelled"]
    /\ UNCHANGED <<async_running, websocket_task, stopped, user_clients, initialized, sessions>>
    /\ UNCHANGED LedgerVars

\* the rest of CopyTrader.stop: await websocket_task is over once that task
\* has ended; websocket_task = None and stop returns
stop_returns ==
    /\ ~async_running
    /\ websocket_task # 0
    /\ tasks[websocket_task] \in {"done", "cancelled"}
    /\ websocket_task' = 0
    /\ stopped' = TRUE
    /\ UNCHANGED <<async_running, tasks, user_clients, initialized, sessions>>
    /\ UNCHANGED LedgerVars

\* a task runs listen_for_master_trades: start_user_data_stream, then
\* aiohttp.ClientSession(), which raises NameError because the module does
\* not import aiohttp; except Exception logs it and, when running, waits 10
\* seconds before reconnecting
listen_for_master_trades(t) ==
    /\ t \in 1..Len(tasks)
    /\ tasks[t] = "created"
    /\ tasks' = [tasks EXCEPT ![t] = IF async_running THEN "reconnect_wait" ELSE "done"]
    /\ UNCHANGED <<async_running, websocket_task, stopped, user_clients, initialized, sessions>>
    /\ UNCHANGED LedgerVars

\* the wait is over: asyncio.create_task(self.listen_for_master_trades()),
\* without a look at running and without storing the task
Reconnect(t) ==
    /\ t \in 1..Len(tasks)
    /\ tasks[t] = "reconnect_wait"
    /\ Len(tasks) < MaxTasks
    /\ tasks' = Append([tasks EXCEPT ![t] = "done"], "created")
    /\ UNCHANGED <<async_running, websocket_task, stopped, user_clients, initialized, sessions>>
    /\ UNCHANGED LedgerVars

\* the handlers and the Database of the asynchronous engine, called with the
\* messages about the master's orders, before and after start()
InitAsync ==
    /\ InitWith(0, 0, 0)
    /\ ~hedgeMode
    /\ scale = NoScale
    /\ nOrders = MaxOrders

NextAsync ==
    \/ \E symbol \in Symbols, side \in OrderSides, quantity \in OrderQuantities,
          price \in OrderPrices, positions_ok \in BOOLEAN :
          handle_new_master_order(symbol, side, quantity, price, positions_ok)
    \/ \E order_id \in 1..MaxOrders, avg_price \in FillPrices :
          handle_filled_master_order(order_id, avg_price)
    \/ \E order_id \in 1..MaxOrders : handle_canceled_master_order(order_id)
    \/ \E telegram_id \in Followers, master_trade_id \in 1..MaxOrders :
          AddUserTrade(telegram_id, master_trade_id)
    \/ CallerCancelled
    \/ start

SpecAsync == InitAsync /\ [][NextAsync]_vars

\* the same with the event loop at work: a call of the Database that can
\* take its step takes it.  Nothing makes the caller of a call that waits give
\* up, so CallerCancelled may never happen.
SpecAsyncFair ==
    SpecAsync /\ WF_vars(\E telegram_id \in Followers, master_trade_id \in 1..MaxOrders :
                             AddUserTrade(telegram_id, master_trade_id))

\* the fills of the master's orders on two symbols.  Orders of the second
\* symbol arrive while the registry is empty (before start()), so that no
\* follower is handed an order for it.
MaxFills == MaxOrders + 2
FillSymbols == Symbols \cup {"ETHUSDT"}

InitFills ==
    /\ InitWith(0, 0, 0)
    /\ ~hedgeMode
    /\ scale = NoScale
    /\ nOrders = MaxFills

NextFills ==
    \/ \E symbol \in FillSymbols, side \in OrderSides :
          /\ symbol \in Symbols \/ user_clients = <<>>
          /\ handle_new_master_order(symbol, side, 100, 50000, TRUE)
    \/ \E order_id \in 1..MaxFills, avg_price \in FillPrices :
          handle_filled_master_order(order_id, avg_price)
    \/ CallerCancelled
    \/ start

SpecFills == InitFills /\ [][NextFills]_vars

\* a caller awaits add_user_client; get_user_api_keys needs the lock of the
\* Database, and keys can be found only when the row has them
AddUserClient(telegram_id, keys_found, account_ok) ==
    LET reg == add_user_client(Registry, telegram_id, keys_found, account_ok)
    IN  /\ InRegistry(Registry, telegram_id) \/ lock = "free"
        /\ keys_found => users[telegram_id].has_keys
        /\ account_ok => keys_found
        /\ user_clients' = reg.clients
        /\ sessions' = reg.sessions
        /\ returned' = RegistryCall("add_user_client", telegram_id, keys_found,
                                    account_ok, reg.value)
        /\ UNCHANGED <<async_running, websocket_task, tasks, stopped, initialized>>
        /\ UNCHANGED <<users, running, follower_clients, trades, copiedFrom, orders,
                       lastEvent, mpos, nextMasterId, nEvents, nFaults, fpos, hedgeMode,
                       nCommands, scale, master_trades, lock, morders, nOrders>>
        /\ UNCHANGED ClientVars

\* a caller awaits remove_user_client
RemoveUserClient(telegram_id) ==
    LET reg == remove_user_client(Registry, telegram_id)
    IN  /\ user_clients' = reg.clients
        /\ sessions' = reg.sessions
        /\ returned' = RegistryCall("remove_user_client", telegram_id, FALSE, FALSE,
                                    reg.value)
        /\ UNCHANGED <<async_running, websocket_task, tasks, stopped, initialized>>
        /\ UNCHANGED <<users, running, follower_clients, trades, copiedFrom, orders,
                       lastEvent, mpos, nextMasterId, nEvents, nFaults, fpos, hedgeMode,
                       nCommands, scale, master_trades, lock, morders, nOrders>>
        /\ UNCHANGED ClientVars

\* the stream tasks of the asynchronous engine under start() and stop()
InitStream ==
    /\ InitWith(0, 0, 0)
    /\ ~hedgeMode
    /\ scale = NoScale
    /\ nOrders = 0

NextStream ==
    \/ start
    \/ stop
    \/ stop_returns
    \/ \E t \in 1..MaxTasks : TaskCancelled(t)
    \/ \E t \in 1..MaxTasks : listen_for_master_trades(t)
    \/ \E t \in 1..MaxTasks : Reconnect(t)

SpecStream == InitStream /\ [][NextStream]_vars

\* the registry of the asynchronous engine: clients added and removed by its
\* callers, before and after start() has initialised it
NextRegistry ==
    \/ \E telegram_id \in Followers, keys_found, account_ok \in BOOLEAN :
          AddUserClient(telegram_id, keys_found, account_ok)
    \/ \E telegram_id \in Followers : RemoveUserClient(telegram_id)
    \/ start
    \/ stop
    \/ stop_returns
    \/ \E t \in 1..MaxTasks : TaskCancelled(t)
    \/ \E t \in 1..MaxTasks : listen_for_master_trades(t)

SpecRegistry == InitStream /\ [][NextRegistry]_vars

\* --------------------------------------------- the master's stream client
\* BinanceWebsocketClient of binance_ws_client.py as the engine of
\* copy_trader.py uses it for the master account: start() creates a thread
\* that runs _run_websocket; the thread opens one connection after the other
\* and run_forever calls _on_message for each message, in the thread, one
\* message at a time.  The handlers are divided at the calls that block: the
\* loops of _copy_position_open and _copy_position_close take one step per
\* follower, and start() of the engine one step per row it loads.
MaxMessages == 2        \* messages the master stream delivers in one run
MaxConns == 2           \* connections opened in one run
MaxThreads == 2         \* threads created in one run

\* the age of a listen key is counted in periods of 30 minutes; the exchange
\* lets a key expire 60 minutes after it was created or renewed
TokenLifetime == 2

MessageKinds == {"position", "bad", "raises"}
KeyOutcomes == {"ok", "auth_rejected"}  \* what the request for a listen key gives
PositionAmounts == {1000}      \* 'pa' of the position of an ACCOUNT_UPDATE

NoHandling == [msg |-> 0, pa |-> 0, size |-> 0, idx |-> 0, hung |-> FALSE]

Thread(pc, conn, handling) == [pc |-> pc, conn |-> conn, handling |-> handling]

Connection(state, key) == [state |-> state, key |-> key, age |-> 0, inbox |-> <<>>]

Message(id, kind, pa) == [id |-> id, kind |-> kind, pa |-> pa]

LogEntry(what, m, t) ==
    [what |-> what, id |-> m.id, thread |-> t, conn |-> threads[t].conn]

\* what no step of the stream client changes
ClientFrame ==
    /\ UNCHANGED <<users, lastEvent, mpos, nextMasterId, hedgeMode, nCommands, scale>>
    /\ UNCHANGED AsyncVars

LedgerFrame == UNCHANGED <<trades, copiedFrom, orders, fpos>>

\* BinanceWebsocketClient.start without the test of ws_thread.is_alive()
client_start_noGuard(alive) ==
    /\ keep_running' = TRUE
    /\ threads' = Append(threads, Thread("while", 0, NoHandling))

\* BinanceWebsocketClient.start: nothing when ws_thread is alive, otherwise
\* keep_running = True and a new thread for _run_websocket
client_start(alive) ==
    IF alive THEN UNCHANGED <<keep_running, threads>>
    ELSE /\ keep_running' = TRUE
         /\ threads' = Append(threads, Thread("while", 0, NoHandling))

\* ws_thread and ws_thread.is_alive(): ws_thread is the thread created last
ThreadAlive == Len(threads) > 0 /\ threads[Len(threads)].pc # "ended"

\* CopyTrader.start up to the SELECT of _load_active_users: running = True,
\* master_client.start(), and the rows of the active users with keys are read
StartStream ==
    /\ ~running
    /\ loading = <<>>
    /\ Len(threads) < MaxThreads
    /\ running' = TRUE
    /\ client_start(ThreadAlive)
    /\ loading' = RowOrder(ActiveUsers(users))
    /\ UNCHANGED <<follower_clients, conns, ws, log, nEvents, nFaults>>
    /\ LedgerFrame
    /\ ClientFrame

\* _init_follower_client for the next row of the loop of _load_active_users
init_follower_client ==
    /\ loading # <<>>
    /\ follower_clients' =
          IF Head(loading) \in Registered THEN follower_clients
          ELSE Append(follower_clients,
                      [telegram_id |-> Head(loading),
                       settings |-> Settings(users[Head(loading)])])
    /\ loading' = Tail(loading)
    /\ UNCHANGED <<running, keep_running, threads, conns, ws, log, nEvents, nFaults>>
    /\ LedgerFrame
    /\ ClientFrame

\* CopyTrader.stop (called by stop_copy_trader when the engine runs):
\* running = False and master_client.stop(), which sets keep_running = False
\* and closes the connection ws refers to
Stop ==
    /\ running
    /\ loading = <<>>
    /\ running' = FALSE
    /\ keep_running' = FALSE
    /\ conns' = IF ws # 0 THEN [conns EXCEPT ![ws].state = "closed"] ELSE conns
    /\ UNCHANGED <<follower_clients, threads, ws, loading, log, nEvents, nFaults>>
    /\ LedgerFrame
    /\ ClientFrame

ThreadStep(t, pc) ==
    /\ t \in 1..Len(threads)
    /\ threads[t].pc = pc

ThreadFrame ==
    /\ UNCHANGED <<running, follower_clients, keep_running, loading, nEvents>>
    /\ ClientFrame

\* while self.keep_running of _run_websocket
WhileTest(t) ==
    /\ ThreadStep(t, "while")
    /\ threads' = [threads EXCEPT ![t].pc = IF keep_running THEN "connect" ELSE "ended"]
    /\ UNCHANGED <<conns, ws, log, nFaults>>
    /\ LedgerFrame
    /\ ThreadFrame

\* _connect_and_subscribe: ws = WebSocketApp(...) and run_forever(); the
\* connection opens and _on_open asks for the listen key: with the key it
\* subscribes, without it (the exchange rejects the credentials) it logs the
\* error and leaves the connection open
connect_and_subscribe(t, outcome) ==
    /\ ThreadStep(t, "connect")
    /\ Len(conns) < MaxConns
    /\ conns' = Append(conns, Connection("open", outcome))
    /\ ws' = Len(conns) + 1
    /\ threads' = [threads EXCEPT ![t].pc = "open", ![t].conn = Len(conns) + 1]
    /\ UNCHANGED <<log, nFaults>>
    /\ LedgerFrame
    /\ ThreadFrame

\* the network or the exchange closes a connection
ConnectionLost(c) ==
    /\ c \in 1..Len(conns)
    /\ conns[c].state = "open"
    /\ conns' = [conns EXCEPT ![c].state = "closed"]
    /\ UNCHANGED <<threads, ws, log, nFaults>>
    /\ LedgerFrame
    /\ ThreadFrame

\* run_forever returns once the connection is closed and the callback in
\* progress, if any, has returned; the thread sleeps 5 seconds when
\* keep_running is set and is back at the test of the while loop
run_forever_returns(t) ==
    /\ ThreadStep(t, "open")
    /\ conns[threads[t].conn].state = "closed"
    /\ threads[t].handling = NoHandling
    /\ threads' = [threads EXCEPT ![t].pc = "while"]
    /\ conns' = [conns EXCEPT ![threads[t].conn].inbox = <<>>]
    /\ UNCHANGED <<ws, log, nFaults>>
    /\ LedgerFrame
    /\ ThreadFrame

\* 30 minutes pass on a connection that is subscribed with a listen key.  No
\* code of the client renews the key.
Tick(c) ==
    /\ c \in 1..Len(conns)
    /\ conns[c].state = "open"
    /\ conns[c].key = "ok"
    /\ conns[c].age < TokenLifetime
    /\ conns' = [conns EXCEPT ![c].age = @ + 1]
    /\ UNCHANGED <<threads, ws, log, nFaults>>
    /\ LedgerFrame
    /\ ThreadFrame

\* the connections the exchange sends the events of the account on
Subscribed(c) ==
    /\ conns[c].state = "open"
    /\ conns[c].key = "ok"
    /\ conns[c].age < TokenLifetime

\* the exchange sends a message: it is queued on every subscribed connection
Arrive(kind, pa) ==
    LET m == Message(MaxMessages - nEvents + 1, kind, pa)
    IN  /\ nEvents > 0
        /\ \E c \in 1..Len(conns) : Subscribed(c)
        /\ conns' = [c \in 1..Len(conns) |->
                        IF Subscribed(c) THEN [conns[c] EXCEPT !.inbox = Append(@, m)]
                        ELSE conns[c]]
        /\ nEvents' = nEvents - 1
        /\ UNCHANGED <<running, follower_clients, keep_running, loading, threads, ws,
                       log, nFaults>>
        /\ LedgerFrame
        /\ ClientFrame

\* _on_message without its except clauses: the exception leaves the callback
\* and ends run_forever
on_message_except_propagates(th) == [th EXCEPT !.pc = "while"]

\* the except clauses of _on_message: the error is logged and the callback
\* returns to run_forever
on_message_except(th) == th

\* run_forever that would hand each message to a callback of its own without
\* waiting for the callback before it
Dispatching_notAwaited(t) == FALSE

\* run_forever reads the next message only when the callback it called for
\* the message before has returned: the thread is inside _on_message
Dispatching(t) == threads[t].handling # NoHandling

\* _on_message for the next message of the connection: a message that is not
\* JSON raises JSONDecodeError in json.loads, a message whose 'pa' is not a
\* number raises ValueError in _on_master_position_update; both are logged.
\* An ACCOUNT_UPDATE with a position starts the loop over follower_clients,
\* which ends at once when the registry is empty.
on_message(t) ==
    LET c == threads[t].conn
        m == Head(conns[c].inbox)
    IN  /\ ThreadStep(t, "open")
        /\ ~Dispatching(t)
        /\ conns[c].state = "open"
        /\ conns[c].inbox # <<>>
        /\ conns' = [conns EXCEPT ![c].inbox = Tail(@)]
        /\ IF m.kind = "position"
           THEN /\ threads' = IF follower_clients = <<>> THEN threads
                              ELSE [threads EXCEPT ![t].handling =
                                       [msg |-> m.id, pa |-> m.pa,
                                        size |-> Len(follower_clients),
                                        idx |-> 1, hung |-> FALSE]]
                /\ log' = IF follower_clients = <<>>
                          THEN log \o <<LogEntry("begin", m, t), LogEntry("end", m, t)>>
                          ELSE Append(log, LogEntry("begin", m, t))
                /\ orders' = <<>>
           ELSE /\ threads' = [threads EXCEPT ![t] = on_message_except(@)]
                /\ log' = Append(log, LogEntry("dropped", m, t))
                /\ orders' = orders
        /\ UNCHANGED <<ws, nFaults, trades, copiedFrom, fpos>>
        /\ ThreadFrame

\* the loops without the try in their body: an exception of a call made for
\* a follower leaves the loop and the handler and reaches _on_message, which
\* logs it; the rest of the message is not handled
copy_except_absent(th) == [on_message_except(th) EXCEPT !.handling = NoHandling]

\* except Exception in the body of the loops of _copy_position_open and
\* _copy_position_close: the error is logged and the loop goes on
copy_except(th) == th

\* how the calls made for one follower end
ServeOutcomes == {"returns", "raises", "hangs"}

\* the next step of the iterator of follower_clients.items() in the thread
\* whose record is th, after the body of the loop: RuntimeError when the body
\* was left by an exception or the size of the dict is not the one it had
\* when the loop started (logged by _on_message), the end of the loop, or the
\* next follower.  The result is the thread and the log after the step.
LoopStep(t, th) ==
    LET h == threads[t].handling
        m == [id |-> h.msg]
    IN  IF th.handling = NoHandling \/ Len(follower_clients) # h.size
        THEN [thread |-> [on_message_except(th) EXCEPT !.handling = NoHandling],
              log |-> Append(log, LogEntry("raised", m, t))]
        ELSE IF h.idx = h.size
        THEN [thread |-> [th EXCEPT !.handling = NoHandling],
              log |-> Append(log, LogEntry("end", m, t))]
        ELSE [thread |-> [th EXCEPT !.handling.idx = h.idx + 1], log |-> log]

\* the body of the for loop over follower_clients.items() in
\* _copy_position_open (pa # 0) or _copy_position_close (pa = 0) for the
\* follower the iterator gave, and the iterator's next step.  A call to the
\* exchange that does not return (hangs) blocks the thread.  Otherwise the
\* follower is served, with its order accepted (returns) or refused by the
\* exchange (raises, which the except clause of the body logs); then the
\* iterator raises RuntimeError when the size of the dict is not the one it
\* had when the loop started (the exception leaves the handler and is logged
\* by _on_message), or the loop ends, or it goes on with the next follower.
ServeNext(t, outcome) ==
    LET h == threads[t].handling
        raises == outcome = "raises"
        st0 == [trades |-> trades, copiedFrom |-> copiedFrom, orders |-> orders,
                fpos |-> fpos]
        st1 == IF h.pa = 0
               THEN CloseForFollower(st0, follower_clients[h.idx], "BTCUSDT",
                                     IF raises THEN "order_raised" ELSE "ok")
               ELSE OpenForFollower(st0, follower_clients[h.idx], "BTCUSDT", "LONG",
                                    h.pa, 50000,
                                    [failAt |-> IF raises THEN 1 ELSE 0, dbOk |-> TRUE],
                                    FALSE, h.msg)
        th == IF raises THEN copy_except(threads[t]) ELSE threads[t]
    IN  /\ ThreadStep(t, "open")
        /\ h # NoHandling
        /\ ~h.hung
        /\ outcome # "returns" => nFaults > 0
        /\ raises => st1.orders # orders
        /\ nFaults' = IF outcome = "returns" THEN nFaults ELSE nFaults - 1
        /\ IF outcome = "hangs"
           THEN /\ threads' = [threads EXCEPT ![t].handling.hung = TRUE]
                /\ UNCHANGED log
                /\ LedgerFrame
           ELSE /\ trades' = st1.trades
                /\ copiedFrom' = st1.copiedFrom
                /\ orders' = st1.orders
                /\ fpos' = st1.fpos
                /\ threads' = [threads EXCEPT ![t] = LoopStep(t, th).thread]
                /\ log' = LoopStep(t, th).log
        /\ UNCHANGED <<conns, ws>>
        /\ ThreadFrame

InitClient ==
    /\ InitWith(MaxMessages, MaxFaults, 0)
    /\ hedgeMode
    /\ scale = NoScale
    /\ nOrders = 0

NextClient ==
    \/ StartStream
    \/ init_follower_client
    \/ Stop
    \/ \E t \in 1..MaxThreads : WhileTest(t)
    \/ \E t \in 1..MaxThreads, outcome \in KeyOutcomes : connect_and_subscribe(t, outcome)
    \/ \E c \in 1..MaxConns : ConnectionLost(c)
    \/ \E t \in 1..MaxThreads : run_forever_returns(t)
    \/ \E kind \in MessageKinds, pa \in PositionAmounts : Arrive(kind, pa)
    \/ \E t \in 1..MaxThreads : on_message(t)
    \/ \E t \in 1..MaxThreads, outcome \in {"returns", "hangs"} : ServeNext(t, outcome)

\* the engine of copy_trader.py with its stream client, step by step, with
\* messages of every kind and an exchange that accepts the orders it answers
SpecClient == InitClient /\ [][NextClient]_vars

\* the sessions of the stream client over time, without messages
InitSession ==
    /\ InitWith(0, 0, 0)
    /\ hedgeMode
    /\ scale = NoScale
    /\ nOrders = 0

NextSession ==
    \/ StartStream
    \/ init_follower_client
    \/ Stop
    \/ \E t \in 1..MaxThreads : WhileTest(t)
    \/ \E t \in 1..MaxThreads, outcome \in KeyOutcomes : connect_and_subscribe(t, outcome)
    \/ \E c \in 1..MaxConns : ConnectionLost(c)
    \/ \E t \in 1..MaxThreads : run_forever_returns(t)
    \/ \E c \in 1..MaxConns : Tick(c)

SpecSession == InitSession /\ [][NextSession]_vars

\* the same with the thread of the client scheduled: a handler that can take
\* its next step takes it
SpecClientFair ==
    SpecClient /\ WF_vars(\E t \in 1..MaxThreads : ServeNext(t, "returns"))

\* 'pa' of the positions of the messages when the master also closes
SerialAmounts == {0, 1000}

\* the engine and its stream client when the master opens and closes: every
\* message is an ACCOUNT_UPDATE with one position
NextSerial ==
    \/ StartStream
    \/ init_follower_client
    \/ Stop
    \/ \E t \in 1..MaxThreads : WhileTest(t)
    \/ \E t \in 1..MaxThreads : connect_and_subscribe(t, "ok")
    \/ \E c \in 1..MaxConns : ConnectionLost(c)
    \/ \E t \in 1..MaxThreads : run_forever_returns(t)
    \/ \E pa \in SerialAmounts : Arrive("position", pa)
    \/ \E t \in 1..MaxThreads : on_message(t)
    \/ \E t \in 1..MaxThreads, outcome \in ServeOutcomes : ServeNext(t, outcome)

SpecSerial == InitClient /\ [][NextSerial]_vars

\* the two engines at work on one database: the engine of copy_trader.py with
\* the ACCOUNT_UPDATE messages and the engine of the package with the
\* messages about the master's orders
InitLedger ==
    /\ InitWith(MaxBotEvents, 0, 0)
    /\ hedgeMode
    /\ scale = NoScale
    /\ nOrders = MaxOrders

NextLedger ==
    \/ Start
    \/ start
    \/ \E ep \in EntryPrices : MasterOpens(<<"BTCUSDT", "LONG">>, 1000, ep)
    \/ \E exit \in ExitPrices : MasterCloses(<<"BTCUSDT", "LONG">>, exit)
    \/ \E symbol \in Symbols, side \in OrderSides :
          handle_new_master_order(symbol, side, 100, 50000, TRUE)
    \/ \E order_id \in 1..MaxOrders : handle_filled_master_order(order_id, 51000)
    \/ CallerCancelled

SpecLedger == InitLedger /\ [][NextLedger]_vars

\* ------------------------------------------------- scaling on its own
InitScale ==
    /\ InitWith(0, 0, 0)
    /\ nOrders = 0
    /\ scale \in [master_amount : ScaleAmounts, entry_price : ScalePrices,
                   risk_factor : ScaleRiskFactors, max_position_size : ScaleCaps,
                   tieUp : BOOLEAN, done : {FALSE}, quantity : {0}]

\* the quantity of the opening order that _copy_position_open computes
ComputeQuantity ==
    /\ ~scale.done
    /\ scale' = [scale EXCEPT
                    !.done = TRUE,
                    !.quantity = Abs(FollowerAmount(scale.master_amount, scale.entry_price,
                                     [risk_factor |-> scale.risk_factor,
                                      max_position_size |-> scale.max_position_size],
                                     scale.tieUp))]
    /\ UNCHANGED <<users, running, follower_clients, trades, copiedFrom, orders,
                   lastEvent, mpos, nextMasterId, nEvents, nFaults, fpos, hedgeMode,
                   nCommands>>
    /\ UNCHANGED AsyncVars
    /\ UNCHANGED ClientVars

NextScale == ComputeQuantity

SpecScale == InitScale /\ [][NextScale]_vars

TypeOK ==
    /\ running \in BOOLEAN
    /\ Len(trades) = Len(copiedFrom)
    /\ nEvents \in 0..Max(MaxEvents, MaxBotEvents)

\* ------------------------------------------------------------ properties
EventStep == nEvents' # nEvents

RowsOf(tr, f) == SelectSeq(tr, LAMBDA r : r.telegram_id = f)
OrdersOf(os, f) == SelectSeq(os, LAMBDA o : o.telegram_id = f)
SettingsOf(f) ==
    (CHOOSE c \in { follower_clients[i] : i \in 1..Len(follower_clients) } :
        c.telegram_id = f).settings

\* C1: in every reachable state of the ledger no two follower trades that are
\* not FAILED were copied from the same master trade for the same follower
C1_Uniqueness ==
    \A i, j \in 1..Len(trades) :
        ( /\ i # j
          /\ trades[i].status # "FAILED" /\ trades[j].status # "FAILED"
          /\ trades[i].telegram_id = trades[j].telegram_id )
        => copiedFrom[i] # copiedFrom[j]

\* the same "position closed" event is handled for the second time in a row
SecondClose == EventStep /\ lastEvent'.kind = "close" /\ lastEvent'.repeated

HadSucceeded(ev, a) ==
    on_master_position_update(trades, copiedFrom, fpos, follower_clients,
        ev.symbol, ev.pa, ev.ep, ev.id,
        [ev.envOpen EXCEPT ![a].failAt = 0],
        [ev.envClose EXCEPT ![a] = IF @ = "db_error" THEN @ ELSE "ok"],
        ev.tieUp)

\* C3: when the exchange rejects or fails a call made for follower a while a
\* master event is fanned out, every other follower b gets the same orders,
\* the same ledger rows and the same position as in the run where a's calls
\* succeeded
C3_Isolation ==
    [][EventStep =>
        \A a, b \in Followers :
            a # b =>
              /\ OrdersOf(orders', b) = OrdersOf(HadSucceeded(lastEvent', a).orders, b)
              /\ RowsOf(trades', b) = RowsOf(HadSucceeded(lastEvent', a).trades, b)
              /\ fpos'[b] = HadSucceeded(lastEvent', a).fpos[b]]_vars

\* C3 witness: the MARKET order of the follower served first raised and the
\* follower served after it has its order accepted and its trade recorded
C3_Witness ==
    /\ lastEvent.kind = "open"
    /\ Len(follower_clients) = 2
    /\ lastEvent.envOpen[follower_clients[1].telegram_id].failAt = 1
    /\ \E k \in 1..Len(orders) :
          /\ orders[k].telegram_id = follower_clients[2].telegram_id
          /\ orders[k].type = "MARKET" /\ orders[k].result = "accepted"
    /\ \E i \in 1..Len(trades) :
          /\ trades[i].telegram_id = follower_clients[2].telegram_id
          /\ trades[i].status = "OPEN" /\ copiedFrom[i] = lastEvent.id

\* C5: when the scaled quantity of a follower rounds to zero, no order is
\* placed for that follower and no ledger row is created for it by the event
C5_ZeroQuantitySkip ==
    [][(EventStep /\ lastEvent'.kind = "open") =>
        \A f \in Registered :
            FollowerAmount(lastEvent'.pa, lastEvent'.ep, SettingsOf(f), lastEvent'.tieUp) = 0
            => /\ OrdersOf(orders', f) = <<>>
               /\ RowsOf(trades', f) = RowsOf(trades, f)]_vars

\* C6: when the master's open position is delivered again, no order is placed
\* for a follower that already has an OPEN trade copied from that position,
\* and no further trade is opened for that follower
C6_NoReopenOnRedelivery ==
    [][(EventStep /\ lastEvent'.kind = "open" /\ lastEvent'.cause = "redelivered") =>
        \A f \in Followers :
            (\E i \in 1..Len(trades) :
                /\ trades[i].telegram_id = f /\ trades[i].status = "OPEN"
                /\ copiedFrom[i] = lastEvent'.id)
            => /\ OrdersOf(orders', f) = <<>>
               /\ RowsOf(trades', f) = RowsOf(trades, f)]_vars

\* C9: the trade recorded when a copy is opened has the master's entry price
\* and, as size, the quantity of the opening order of that follower
C9_RecordedEntryAndSize ==
    [][(EventStep /\ lastEvent'.kind = "open") =>
        \A i \in (Len(trades) + 1)..Len(trades') :
            /\ trades'[i].entry_price = lastEvent'.ep
            /\ \E k \in 1..Len(orders') :
                  /\ orders'[k].telegram_id = trades'[i].telegram_id
                  /\ orders'[k].type = "MARKET"
                  /\ trades'[i].size = orders'[k].quantity]_vars

\* pnl and pnl_percent of a trade closed at price exit: size * (exit - entry)
\* for LONG, the opposite for SHORT; the percentage is in 1/100 percent
PnlAt(row, exit) ==
    [isNull |-> FALSE,
     v |-> IF row.position_side = "LONG" THEN row.size * (exit - row.entry_price)
           ELSE row.size * (row.entry_price - exit)]
PnlPercentAt(row, exit) ==
    [isNull |-> FALSE,
     v |-> IF row.position_side = "LONG"
           THEN ((exit - row.entry_price) * 10000) \div row.entry_price
           ELSE ((row.entry_price - exit) * 10000) \div row.entry_price]

\* C10: when the master closes a copied position at price exit, a follower
\* trade that goes from OPEN to CLOSED gets pnl and pnl_percent set from its
\* size, its entry price and exit
C10_ClosedWithPnl ==
    [][(EventStep /\ lastEvent'.cause = "closed") =>
        \A i \in 1..Len(trades) :
            (trades[i].status = "OPEN" /\ trades'[i].status = "CLOSED")
            => /\ trades'[i].pnl = PnlAt(trades[i], lastEvent'.exit)
               /\ trades'[i].pnl_percent = PnlPercentAt(trades[i], lastEvent'.exit)]_vars

\* C4: for risk_factor > 0, max_position_size > 0 and entry_price > 0 the
\* quantity of the opening order times the entry price is at most
\* max_position_size plus one unit of the instrument precision (0.001) at
\* that price
C4_ScalingBound ==
    scale.done =>
        scale.quantity * scale.entry_price
            <= 1000 * scale.max_position_size + scale.entry_price

\* C4 witness: the cap applied and rounding took the notional above it
C4_Witness ==
    /\ scale.done
    /\ Abs(scale.master_amount * scale.risk_factor) * scale.entry_price
          > scale.max_position_size * 10000
    /\ scale.quantity * scale.entry_price > 1000 * scale.max_position_size

\* C7: no master event places an order for a follower whose row in users says
\* is_active = 0 (after /stop or /unregister)
C7_NoOrderAfterStop ==
    [][EventStep =>
        \A k \in 1..Len(orders') : users[orders'[k].telegram_id].is_active]_vars

\* C8: the opening order computed for a follower from a master event has the
\* quantity that the follower's current risk settings in users give
C8_OrdersUseCurrentSettings ==
    [][(EventStep /\ lastEvent'.kind = "open") =>
        \A k \in 1..Len(orders') :
            LET f == orders'[k].telegram_id
            IN  (users[f].is_active /\ users[f].has_keys /\ orders'[k].type = "MARKET")
                => orders'[k].quantity =
                      Abs(FollowerAmount(lastEvent'.pa, lastEvent'.ep, Settings(users[f]),
                                         lastEvent'.tieUp))]_vars

\* a message about a master order was handled by the asynchronous engine
Handler(name) == nOrders' # nOrders /\ returned'.call = name

\* C11: when a master trade is closed at exitPrice, pnl is the trade's
\* recorded size times (exitPrice - entryPrice) for LONG and times
\* (entryPrice - exitPrice) for SHORT, and pnl_percent is that price move
\* divided by entryPrice, times 100
C11_MasterPnl ==
    [][Handler("handle_filled_master_order") =>
        \A i \in 1..Len(master_trades) :
            (master_trades[i].status = "OPEN" /\ master_trades'[i].status = "CLOSED")
            => LET t == master_trades[i]
                   exit == returned'.avg_price
                   move == IF t.position_side = "LONG" THEN exit - t.entry_price.v
                           ELSE t.entry_price.v - exit
               IN  /\ master_trades'[i].pnl = Value(t.size * move)
                   /\ master_trades'[i].pnl_percent
                         = Value((move * 10000) \div t.entry_price.v)]_vars

\* C12: add_user_trade for a (master trade, follower) pair that already has a
\* trade that is not FAILED inserts no row and returns the id of that trade
C12_OpenExistingPair ==
    [][Handler("add_user_trade") =>
        \A i \in 1..Len(trades) :
            ( /\ trades[i].telegram_id = returned'.telegram_id
              /\ trades[i].master_trade_id = Value(returned'.master_trade_id)
              /\ trades[i].status # "FAILED" )
            => /\ trades' = trades
               /\ returned'.value = i]_vars

\* C13: when the master opens a position for a key that had none, exactly
\* one master trade with status OPEN is created and every follower of the
\* registry is handed exactly one opening order, computed from the amount and
\* the entry price of the event
C13_OpenCreatesMasterTradeAndFansOut ==
    [][(EventStep /\ lastEvent'.cause = "opened") =>
        /\ Len(master_trades') = Len(master_trades) + 1
        /\ master_trades'[Len(master_trades')].status = "OPEN"
        /\ \A f \in Registered :
              /\ Cardinality({ k \in 1..Len(orders') :
                                 orders'[k].telegram_id = f /\ orders'[k].type = "MARKET" }) = 1
              /\ \A k \in 1..Len(orders') :
                    (orders'[k].telegram_id = f /\ orders'[k].type = "MARKET")
                    => orders'[k].quantity =
                          Abs(FollowerAmount(lastEvent'.pa, lastEvent'.ep, SettingsOf(f),
                                             lastEvent'.tieUp))]_vars

\* the master position of the other side of the symbol is flat
OtherSideFlat(symbol, pa) ==
    mpos[<<symbol, IF pa > 0 THEN "SHORT" ELSE "LONG">>].amt = 0

\* C14: when the master changes the size of an open position, a follower
\* that held the quantity copied from the old size and whose adjusting order
\* is accepted holds, after the event, the target quantity computed from the
\* new size (the order is the difference of the two)
C14_ResizeReconciles ==
    [][(EventStep /\ lastEvent'.cause = "resized") =>
        \A f \in Registered :
            LET symbol == lastEvent'.symbol
                key == <<symbol, IF lastEvent'.pa > 0 THEN "LONG" ELSE "SHORT">>
                old == FollowerAmount(SignedAmount(key, mpos[key].amt), mpos[key].ep,
                                      SettingsOf(f), FALSE)
                target == FollowerAmount(lastEvent'.pa, lastEvent'.ep, SettingsOf(f),
                                         lastEvent'.tieUp)
            IN  ( /\ OtherSideFlat(symbol, lastEvent'.pa)
                  /\ fpos[f][symbol] = old
                  /\ lastEvent'.envOpen[f].failAt # 1 )
                => fpos'[f][symbol] = target]_vars

\* C15: when the master closes a position and no call fails, every follower
\* that has an OPEN trade copied from it ends flat at the exchange on that
\* symbol and with that trade CLOSED in the ledger
C15_CloseFlattensFollowers ==
    [][(EventStep /\ lastEvent'.cause = "closed" /\ lastEvent'.envClose = AllOk
        /\ \A key \in Keys : mpos'[key].amt = 0) =>
        \A i \in 1..Len(trades) :
            (trades[i].status = "OPEN" /\ copiedFrom[i] = lastEvent'.id)
            => /\ trades'[i].status = "CLOSED"
               /\ fpos'[trades[i].telegram_id][lastEvent'.symbol] = 0]_vars

\* C16: when an order of the master that was never filled is cancelled, its
\* master trade goes from OPEN to CANCELED, no follower order is placed and no
\* follower trade exists for that master trade
C16_CancelMarksCanceled ==
    [][Handler("handle_canceled_master_order") =>
        \A m \in 1..Len(master_trades) :
            (master_trades[m].order_id = returned'.order_id /\ master_trades[m].status = "OPEN")
            => /\ master_trades'[m].status = "CANCELED"
               /\ orders' = <<>>
               /\ \A i \in 1..Len(trades') :
                     trades'[i].master_trade_id # Value(m)]_vars

\* the orders of one type placed for follower f in the last event
OrdersOfType(os, f, type) ==
    SelectSeq(os, LAMBDA o : o.telegram_id = f /\ o.type = type)

\* C17: when the opening MARKET order of a follower is accepted and no call
\* fails, a LIMIT take-profit order is placed iff take_profit is not 0 and a
\* STOP_MARKET stop-loss order iff stop_loss is not 0; each is on the side
\* opposite to the position, reduce-only, and priced from the master's entry
\* price
C17_ProtectiveOrders ==
    [][(EventStep /\ lastEvent'.kind = "open") =>
        \A f \in Registered :
            lastEvent'.envOpen[f].failAt = 0 =>
              LET long == lastEvent'.pa > 0
                  ep == lastEvent'.ep
                  tp == OrdersOfType(orders', f, "LIMIT")
                  sl == OrdersOfType(orders', f, "STOP_MARKET")
                  set == SettingsOf(f)
              IN  /\ Len(tp) = (IF set.take_profit # 0 THEN 1 ELSE 0)
                  /\ Len(sl) = (IF set.stop_loss # 0 THEN 1 ELSE 0)
                  /\ \A k \in 1..Len(tp) :
                        /\ tp[k].side = (IF long THEN "SELL" ELSE "BUY")
                        /\ tp[k].reduceOnly
                        /\ tp[k].price = ep * (IF long THEN 100 + set.take_profit
                                                       ELSE 100 - set.take_profit)
                  /\ \A k \in 1..Len(sl) :
                        /\ sl[k].side = (IF long THEN "SELL" ELSE "BUY")
                        /\ sl[k].reduceOnly
                        /\ sl[k].stop_price = ep * (IF long THEN 100 - set.stop_loss
                                                            ELSE 100 + set.stop_loss)]_vars

\* C18: when the opening order of a follower is rejected or fails at the
\* exchange, a trade with status FAILED is recorded for that follower
C18_FailureRecorded ==
    [][(EventStep /\ lastEvent'.kind = "open") =>
        \A f \in Registered :
            lastEvent'.envOpen[f].failAt = 1
            => \E i \in (Len(trades) + 1)..Len(trades') :
                  trades'[i].telegram_id = f /\ trades'[i].status = "FAILED"]_vars

\* C19: once the handler of an opening has returned, every opening order the
\* exchange accepted for a follower has a row in the ledger, also when the
\* write to the ledger failed
C19_AcceptedIsRecorded ==
    [][(EventStep /\ lastEvent'.kind = "open") =>
        \A k \in 1..Len(orders') :
            (orders'[k].type = "MARKET" /\ orders'[k].result = "accepted")
            => \E i \in (Len(trades) + 1)..Len(trades') :
                  trades'[i].telegram_id = orders'[k].telegram_id]_vars

\* C20: after stop() has returned no stream task of the engine takes a
\* step: none connects again and none is created
C20_NothingAfterStop ==
    [][(stopped /\ stopped') => tasks' = tasks]_vars

\* C23: once running is false no new connection attempt is started: no
\* task of the engine goes on to open a stream session
C23_NoAttemptWhenNotRunning ==
    [][~async_running =>
        \A t \in 1..Len(tasks) :
            tasks[t] = "created"
            => tasks'[t] \in {"created", "cancel_requested", "cancelled"}]_vars

\* C27: every follower trade with status OPEN has a master counterpart that
\* is still open: the master holds a position on the symbol and side of the
\* trade, or the master trade the row refers to has status OPEN
C27_OpenHasMasterCounterpart ==
    \A i \in 1..Len(trades) :
        trades[i].status = "OPEN"
        => \/ mpos[<<trades[i].symbol, trades[i].position_side>>].amt # 0
           \/ /\ ~trades[i].master_trade_id.isNull
              /\ trades[i].master_trade_id.v \in 1..Len(master_trades)
              /\ master_trades[trades[i].master_trade_id.v].status = "OPEN"

\* C28: there is at most one OPEN master trade per (symbol, position side)
C28_OneOpenMasterTradePerKey ==
    \A i, j \in 1..Len(master_trades) :
        ( /\ i # j
          /\ master_trades[i].status = "OPEN" /\ master_trades[j].status = "OPEN"
          /\ master_trades[i].symbol = master_trades[j].symbol )
        => master_trades[i].position_side # master_trades[j].position_side

\* the key of the master position that event ev is about
KeyOf(ev) == CHOOSE key \in Keys : mpos[key].id = ev.id

\* C29: when the master closes the position of one (symbol, side), the
\* follower trades of the same symbol and the other side keep their status,
\* and every order placed is one that reduces a position of the closed side
\* (SELL for LONG, BUY for SHORT)
C29_CloseTouchesOnlyItsKey ==
    [][(EventStep /\ lastEvent'.cause = "closed") =>
        /\ \A i \in 1..Len(trades) :
              ( /\ trades[i].symbol = lastEvent'.symbol
                /\ trades[i].position_side # KeyOf(lastEvent')[2] )
              => trades'[i].status = trades[i].status
        /\ \A k \in 1..Len(orders') :
              orders'[k].side = (IF KeyOf(lastEvent')[2] = "LONG" THEN "SELL" ELSE "BUY")]_vars

\* C21: once the exchange has rejected the credentials of the account when
\* the listen key was asked for, the client makes no further connection
\* attempt
C21_NoReconnectAfterAuthRejection ==
    [][(\E c \in 1..Len(conns) : conns[c].key = "auth_rejected")
        => Len(conns') = Len(conns)]_vars

\* thread t has dispatched a message that could not be parsed or whose
\* handling raised
DroppedBy(t) ==
    /\ Len(log') = Len(log) + 1
    /\ log'[Len(log')].what \in {"dropped", "raised"}
    /\ log'[Len(log')].thread = t

C24_KeyRenewedBeforeExpiry ==
    \A c \in 1..Len(conns) :
        (conns[c].state = "open" /\ conns[c].key = "ok")
        => conns[c].age < TokenLifetime

\* follower f is still to be served by a fan-out in progress, behind the
\* follower that is being served
Waits(f) ==
    \E t \in 1..Len(threads) :
        LET h == threads[t].handling
        IN  /\ h # NoHandling
            /\ \E i \in (h.idx + 1)..h.size :
                  /\ i <= Len(follower_clients)
                  /\ follower_clients[i].telegram_id = f

\* C25: a follower that is still to be served in a fan-out is eventually
\* served (or the fan-out ends), also when the call to the exchange made for
\* the follower before it never returns
C25_NoFollowerWaitsForAnother ==
    \A f \in Followers : []<>(~Waits(f))

\* C26: a fan-out over the registry ends by reaching the end of the registry
\* and not by an error of the iteration, also when followers are added to the
\* registry while it runs
C26_FanOutOverSnapshot ==
    [][\A t \in 1..Len(threads) :
          (threads[t].handling # NoHandling /\ threads'[t].handling = NoHandling)
          => log'[Len(log')].what = "end"]_vars

\* C30: the messages of the master are handled in the order of their arrival
\* and never two at a time: no two threads are in a handler together, the
\* messages dispatched have increasing arrival numbers, and a handler begins
\* only after every handler begun before it has ended
C30_InOrderNeverConcurrent ==
    /\ \A t1, t2 \in 1..Len(threads) :
          t1 # t2 => ~ (threads[t1].handling # NoHandling /\ threads[t2].handling # NoHandling)
    /\ \A i \in 1..Len(log) :
          log[i].what \in {"begin", "dropped"}
          => \A j \in 1..(i - 1) :
                /\ log[j].id <= log[i].id
                /\ log[j].what \in {"begin", "dropped"} => log[j].id < log[i].id
                /\ log[j].what = "begin"
                   => \E k \in (j + 1)..(i - 1) :
                         log[k].id = log[j].id /\ log[k].what \in {"end", "raised"}

\* C30 witness: two position messages of the master came on one connection
\* with both followers registered; the first was handled to its end, with its
\* orders and ledger rows, and the handling of the second began after that
C30_Witness ==
    /\ Len(log) >= 3
    /\ log[1].what = "begin" /\ log[2].what = "end" /\ log[3].what = "begin"
    /\ log[1].id = 1 /\ log[3].id = 2
    /\ log[1].conn = log[3].conn
    /\ Len(follower_clients) = 2
    /\ Len(trades) >= 3

\* thread t is in the fan-out of an opening and follower f is the one whose
\* calls to the exchange it is making: f's opening order is in flight
OpenInFlight(t, f) ==
    LET h == threads[t].handling
    IN  /\ h # NoHandling
        /\ h.pa # 0
        /\ h.idx <= Len(follower_clients)
        /\ follower_clients[h.idx].telegram_id = f

\* C31: while the opening order of a follower is in flight, the handling of
\* no other message of the master begins and no order is submitted for that
\* follower except by the step in which the opening completes: a close or an
\* adjustment for the follower comes after it
C31_OpenCompletesFirst ==
    [][\A t \in 1..Len(threads), f \in Followers :
          OpenInFlight(t, f) =>
            /\ Len(log') > Len(log) => log'[Len(log')].id = threads[t].handling.msg
            /\ OrdersOf(orders', f) # OrdersOf(orders, f)
               => threads'[t].handling # threads[t].handling]_vars

\* C31 witness: the opening of F1 was accepted and recorded, its handling
\* ended, and the closing that came after it placed F1's closing order
C31_Witness ==
    /\ Len(log) >= 3
    /\ log[1].what = "begin" /\ log[2].what = "end" /\ log[3].what = "begin"
    /\ log[1].id = 1 /\ log[3].id = 2
    /\ \E i \in 1..Len(trades) :
          trades[i].telegram_id = "F1" /\ trades[i].status = "CLOSED"
    /\ \E k \in 1..Len(orders) :
          /\ orders[k].telegram_id = "F1" /\ orders[k].side = "SELL"
          /\ orders[k].type = "MARKET" /\ orders[k].result = "accepted"

\* a call made for the follower that thread t serves was refused by the
\* exchange in this step
RaisedIn(t) ==
    /\ threads[t].handling # NoHandling
    /\ ~threads[t].handling.hung
    /\ Len(orders') = Len(orders) + 1
    /\ orders'[Len(orders')].result = "raised"

\* C32: an order that the exchange refuses for a follower leaves the master
\* side as the accepted order would have left it: the handling of the message
\* goes on with the next follower or ends as it would have, the thread stays
\* on its connection with the messages that wait there, the engine and the
\* client keep running, the registry and the master's trades are unchanged
C32_MasterSideUnaffected ==
    [][\A t \in 1..Len(threads) :
          RaisedIn(t) =>
            /\ threads'[t] = LoopStep(t, threads[t]).thread
            /\ log' = LoopStep(t, threads[t]).log
            /\ UNCHANGED <<running, keep_running, follower_clients, conns, ws,
                           mpos, master_trades, morders>>]_vars

\* C32 witness: the opening order of F1 was refused while F2's was accepted
\* and recorded, the handling of that message ended, and the message that
\* came after it was handled to its end
C32_Witness ==
    /\ nFaults < MaxFaults
    /\ \A t \in 1..Len(threads) : ~threads[t].handling.hung
    /\ \E i, j \in 1..Len(log) :
          /\ i < j
          /\ log[i].what = "end" /\ log[i].id = 1
          /\ log[j].what = "end" /\ log[j].id = 2
    /\ \E i \in 1..Len(trades) : trades[i].telegram_id = "F2" /\ copiedFrom[i] = 1
    /\ \A i \in 1..Len(trades) : trades[i].telegram_id = "F1" => copiedFrom[i] # 1

\* the statuses a trade does not leave
TerminalStatuses == {"CLOSED", "CANCELED", "FAILED"}

\* C33: the ledger only grows and a terminal trade is final: every row of
\* the follower trades and of the master trades is still there after every
\* step, and a row whose status is CLOSED, CANCELED or FAILED keeps its
\* status, its pnl and its closing time
C33_AppendOnlyTerminalFinal ==
    [][/\ Len(trades') >= Len(trades)
       /\ Len(master_trades') >= Len(master_trades)
       /\ \A i \in 1..Len(trades) :
             /\ trades'[i].telegram_id = trades[i].telegram_id
             /\ trades'[i].symbol = trades[i].symbol
             /\ trades[i].status \in TerminalStatuses => trades'[i] = trades[i]
       /\ \A i \in 1..Len(master_trades) :
             /\ master_trades'[i].id = master_trades[i].id
             /\ master_trades[i].status \in TerminalStatuses
                => master_trades'[i] = master_trades[i]]_vars

\* C33 witness: a follower trade closed at an earlier time is still as it
\* was after a later closing on its symbol closed another trade of the same
\* follower, and a closed master trade is in the ledger with its pnl
C33_Witness ==
    /\ \E i, j \in 1..Len(trades) :
          /\ i < j
          /\ trades[i].telegram_id = trades[j].telegram_id
          /\ trades[i].status = "CLOSED" /\ trades[j].status = "CLOSED"
          /\ trades[i].closed_at.v < trades[j].closed_at.v
    /\ \E m \in 1..Len(master_trades) :
          master_trades[m].status = "CLOSED" /\ ~master_trades[m].pnl.isNull

\* C34: a write operation of the Database that logs an audit entry returns
\* and leaves the lock free: whenever the lock is held by such a call, it is
\* free again later
C34_AuditedWriteReleasesLock ==
    (lock = "held") ~> (lock = "free")

\* the listen_for_master_trades tasks that have not ended
ActiveListeners ==
    { t \in 1..Len(tasks) : tasks[t] \in {"created", "reconnect_wait", "cancel_requested"} }

\* C35: at most one listener task of the engine is active at any time
C35_OneListener ==
    Cardinality(ActiveListeners) <= 1

\* C36: when start() of the stream client has returned (the engine calls it
\* in its own start()), keep_running is set and the thread created last is
\* alive
C36_RunningAfterStart ==
    [][(~running /\ running') =>
        /\ keep_running'
        /\ Len(threads') > 0
        /\ threads'[Len(threads')].pc # "ended"]_vars

\* the opening MARKET order made for follower f in the event just handled
\* ended with result
MarketOrder(os, f, result) ==
    \E k \in 1..Len(os) :
        os[k].telegram_id = f /\ os[k].type = "MARKET" /\ os[k].result = result

\* C37: on an opening, a row with status OPEN is written for a follower only
\* when the exchange accepted the follower's MARKET order; when the MARKET
\* order raised, no row is written for the follower and no take-profit or
\* stop-loss order is placed for it
C37_OpenRowOnlyAfterAcceptedOrder ==
    [][(EventStep /\ lastEvent'.kind = "open") =>
        \A f \in Registered :
            /\ (\E i \in (Len(trades) + 1)..Len(trades') :
                    trades'[i].telegram_id = f /\ trades'[i].status = "OPEN")
               => MarketOrder(orders', f, "accepted")
            /\ MarketOrder(orders', f, "raised")
               => /\ RowsOf(trades', f) = RowsOf(trades, f)
                  /\ OrdersOfType(orders', f, "LIMIT") = <<>>
                  /\ OrdersOfType(orders', f, "STOP_MARKET") = <<>>
                  /\ fpos'[f] = fpos[f]]_vars

\* C37 witness: the MARKET order of F1, who has a take-profit set, raised:
\* F1 has no row for the master's position and no LIMIT order, while F2 has
\* its row
C37_Witness ==
    /\ lastEvent.kind = "open"
    /\ MarketOrder(orders, "F1", "raised")
    /\ SettingsOf("F1").take_profit > 0
    /\ OrdersOfType(orders, "F1", "LIMIT") = <<>>
    /\ \A i \in 1..Len(trades) :
          trades[i].telegram_id = "F1" => copiedFrom[i] # lastEvent.id
    /\ \E i \in 1..Len(trades) :
          trades[i].telegram_id = "F2" /\ copiedFrom[i] = lastEvent.id

\* a call of add_user_client or remove_user_client was made in this step
RegistryStep(name) == returned' # returned /\ returned'.call = name

\* the followers of the registry of the asynchronous engine
RegistryIds(clients) == { clients[i] : i \in 1..Len(clients) }

C39_RemoveOnlyThatClient ==
    [][RegistryStep("remove_user_client") =>
        LET f == returned'.telegram_id
        IN  IF f \notin RegistryIds(user_clients)
            THEN ~returned'.value /\ user_clients' = user_clients /\ sessions' = sessions
            ELSE /\ returned'.value
                 /\ sessions'[f] = "closed"
                 /\ user_clients' = SelectSeq(user_clients, LAMBDA c : c # f)
                 /\ \A g \in Followers \ {f} : sessions'[g] = sessions[g]]_vars

\* C39 witness: F1 was removed from a registry that held F1 and F2: its
\* session is closed and F2 is still registered with its session open
C39_Witness ==
    /\ returned.call = "remove_user_client"
    /\ returned.telegram_id = "F1" /\ returned.value
    /\ sessions["F1"] = "closed"
    /\ user_clients = <<"F2">>
    /\ sessions["F2"] = "open"

\* C40: a fill handled by handle_filled_master_order changes only master
\* trades that were OPEN, have the symbol of the filled order and a side
\* opposite to the fill (LONG for a SELL, SHORT for a BUY), and what it
\* changes of them is the closing (status CLOSED, closed_at, pnl and
\* pnl_percent); every other master trade is left as it was
C40_FillClosesOnlyOppositeOpenTrades ==
    [][Handler("handle_filled_master_order") =>
        LET fill == morders[returned'.order_id]
        IN  /\ Len(master_trades') = Len(master_trades)
            /\ \A i \in 1..Len(master_trades) :
                  master_trades'[i] # master_trades[i]
                  => /\ master_trades[i].status = "OPEN"
                     /\ master_trades[i].symbol = fill.symbol
                     /\ master_trades[i].position_side
                           = (IF fill.side = "SELL" THEN "LONG" ELSE "SHORT")
                     /\ master_trades'[i]
                           = [master_trades[i] EXCEPT
                                 !.status = "CLOSED",
                                 !.closed_at = master_trades'[i].closed_at,
                                 !.pnl = master_trades'[i].pnl,
                                 !.pnl_percent = master_trades'[i].pnl_percent]]_vars

\* C40 witness: a SELL fill on BTCUSDT closed the LONG trade of that symbol
\* while the LONG trade of ETHUSDT and the SHORT trade of BTCUSDT are OPEN
C40_Witness ==
    /\ returned.call = "handle_filled_master_order"
    /\ Len(master_trades) >= 3
    /\ morders[returned.order_id].side = "SELL"
    /\ morders[returned.order_id].symbol = "BTCUSDT"
    /\ \E i, j, k \in 1..Len(master_trades) :
          /\ master_trades[i].symbol = "BTCUSDT"
          /\ master_trades[i].position_side = "LONG"
          /\ master_trades[i].status = "CLOSED"
          /\ master_trades[j].symbol = "ETHUSDT"
          /\ master_trades[j].position_side = "LONG"
          /\ master_trades[j].status = "OPEN"
          /\ master_trades[k].symbol = "BTCUSDT"
          /\ master_trades[k].position_side = "SHORT"
          /\ master_trades[k].status = "OPEN"

====
